---- MODULE Spec2Model ----
(***************************************************************************)
(* Model of the webguard-instance runner (internal/runner/runner.go):      *)
(* RunMonitoring starts the response phase and the SSL phase as two        *)
(* goroutines; each phase fetches a batch from Core, starts                *)
(* max(1, QueueDefaultWorkers) workers reading an unbuffered channel,      *)
(* hands every non-maintenance entry to a worker, closes the channel and   *)
(* waits for the workers.                                                  *)
(***************************************************************************)
EXTENDS Integers, Sequences, FiniteSets, Bags, TLC

\* ---------------------------------------------------------------- bounds
\* longest batch Core answers when one phase function is called on its own
MaxBatch == 2
\* longest batch Core answers to each phase when RunMonitoring runs both
MaxRunBatch == 1
\* largest configured QueueDefaultWorkers
MaxWorkers == 2

\* ------------------------------------------------------------- constants
Phases == {"response", "ssl"}

TypeHTTP == "http"
TypePing == "ping"
TypeKeyword == "keyword"
TypePort == "port"
\* a type string none of the four constants matches
TypeOther == "other"

StatusUp == "up"
StatusDown == "down"
StatusUnknown == "unknown"

Max(a, b) == IF a >= b THEN a ELSE b

\* A Go pointer is modelled as a sequence: <<>> is nil, <<v>> points to v.
Nil == <<>>
Ptr(v) == <<v>>

\* the job ids Core sends
Ids == {1, 2}

\* response times a probe measures (abstract milliseconds)
Elapsed == {0, 3}

\* monitor.Monitoring, with the fields the runner's control flow reads
Monitoring ==
    [ID : Ids,
     Type : {TypeHTTP, TypePing, TypeKeyword, TypePort, TypeOther},
     Port : {0, 80},
     MaintenanceActive : BOOLEAN]

\* the jobs Core answers with when one phase function is called on its own
CoreJobs ==
    {m \in Monitoring : m.Type \in {TypeHTTP, TypePing} /\ m.Port = 80}

\* the jobs Core answers with when RunMonitoring runs both phases
RunJobs == {m \in CoreJobs : m.ID = 1 /\ m.Type = TypeHTTP}

Batches(jobs, n) == UNION {[1..k -> jobs] : k \in 0..n}

\* ------------------------------------------------------ probe strategies
\* What the network does to one response probe: the TCP/HTTP exchange
\* fails (err) or answers with a status code and a body that contains the
\* keyword or not; elapsed is the wall-clock time the probe measured.
StatusCodes == {199, 200, 399, 400, 500}

NetEnvs ==
    [addrErr : {FALSE}, err : {TRUE}, statusCode : {0},
     hasKeyword : {FALSE}, elapsed : Elapsed]
    \cup
    [addrErr : {TRUE}, err : {TRUE}, statusCode : {0},
     hasKeyword : {FALSE}, elapsed : {0}]
    \cup
    [addrErr : {FALSE}, err : {FALSE}, statusCode : StatusCodes,
     hasKeyword : BOOLEAN, elapsed : Elapsed]

handleHTTPMonitoringUpWithoutTime(monitoring, net) ==
    IF net.err
    THEN [Status |-> StatusDown, ResponseTime |-> Nil]
    ELSE IF net.statusCode >= 200 /\ net.statusCode < 400
         THEN [Status |-> StatusUp, ResponseTime |-> Nil]
         ELSE [Status |-> StatusDown, ResponseTime |-> Nil]

handleHTTPMonitoring(monitoring, net) ==
    IF net.err
    THEN [Status |-> StatusDown, ResponseTime |-> Nil]
    ELSE IF net.statusCode >= 200 /\ net.statusCode < 400
         THEN [Status |-> StatusUp, ResponseTime |-> Ptr(net.elapsed)]
         ELSE [Status |-> StatusDown, ResponseTime |-> Nil]

handleKeywordMonitoringOfGoodStatus(monitoring, net) ==
    IF net.err
    THEN [Status |-> StatusDown, ResponseTime |-> Nil]
    ELSE IF net.hasKeyword /\ net.statusCode >= 200 /\ net.statusCode < 400
         THEN [Status |-> StatusUp, ResponseTime |-> Ptr(net.elapsed)]
         ELSE [Status |-> StatusDown, ResponseTime |-> Nil]

handleKeywordMonitoring(monitoring, net) ==
    IF net.err
    THEN [Status |-> StatusDown, ResponseTime |-> Nil]
    ELSE IF net.hasKeyword
         THEN [Status |-> StatusUp, ResponseTime |-> Ptr(net.elapsed)]
         ELSE [Status |-> StatusDown, ResponseTime |-> Nil]

handlePingMonitoringWithoutTime(monitoring, net) ==
    IF net.addrErr \/ net.err
    THEN [Status |-> StatusDown, ResponseTime |-> Nil]
    ELSE [Status |-> StatusUp, ResponseTime |-> Ptr(net.elapsed)]

handlePingMonitoring(monitoring, net) ==
    IF net.addrErr
    THEN [Status |-> StatusDown, ResponseTime |-> Nil]
    ELSE IF net.err
         THEN [Status |-> StatusDown, ResponseTime |-> Ptr(net.elapsed)]
         ELSE [Status |-> StatusUp, ResponseTime |-> Ptr(net.elapsed)]

handlePortMonitoring(monitoring, net) ==
    IF monitoring.Port <= 0
    THEN [Status |-> StatusDown, ResponseTime |-> Nil]
    ELSE IF net.addrErr \/ net.err
         THEN [Status |-> StatusDown, ResponseTime |-> Nil]
         ELSE [Status |-> StatusUp, ResponseTime |-> Ptr(net.elapsed)]

crawlResponseMonitoring(monitoring, net) ==
    CASE monitoring.Type = TypeHTTP -> handleHTTPMonitoring(monitoring, net)
      [] monitoring.Type = TypePing -> handlePingMonitoring(monitoring, net)
      [] monitoring.Type = TypeKeyword -> handleKeywordMonitoring(monitoring, net)
      [] monitoring.Type = TypePort -> handlePortMonitoring(monitoring, net)
      [] OTHER -> [Status |-> StatusUnknown, ResponseTime |-> Nil]

\* What the TLS validator meets: the target does not resolve, the dial
\* fails, or the peer presents PeerCertificates (possibly none); now is the
\* validator's clock and hostOk the outcome of VerifyHostname.
Certificates ==
    [NotBefore : {1}, NotAfter : {2}, IssuerCN : {"", "ca"},
     IssuerDN : {"", "CN=ca"}]

TLSEnvs ==
    [resolveErr : {TRUE}, dialErr : {FALSE}, PeerCertificates : {<<>>},
     now : {1}, hostOk : {FALSE}]
    \cup
    [resolveErr : {FALSE}, dialErr : {TRUE}, PeerCertificates : {<<>>},
     now : {1}, hostOk : {FALSE}]
    \cup
    [resolveErr : {FALSE}, dialErr : {FALSE}, PeerCertificates : {<<>>},
     now : {1}, hostOk : {FALSE}]
    \cup
    [resolveErr : {FALSE}, dialErr : {FALSE},
     PeerCertificates : {<<c>> : c \in Certificates},
     now : 0..3, hostOk : BOOLEAN]

InvalidSSLPayload(monitoring) ==
    [MonitoringID |-> monitoring.ID, IsValid |-> FALSE,
     ExpiresAt |-> Nil, Issuer |-> Nil, IssuedAt |-> Nil]

crawlMonitoringSSLKeepsDates(monitoring, env) ==
    IF env.resolveErr \/ env.dialErr \/ Len(env.PeerCertificates) = 0
    THEN InvalidSSLPayload(monitoring)
    ELSE LET certificate == env.PeerCertificates[1]
         IN [MonitoringID |-> monitoring.ID,
             IsValid |-> /\ env.now >= certificate.NotBefore
                         /\ env.now <= certificate.NotAfter
                         /\ env.hostOk,
             ExpiresAt |-> Ptr(certificate.NotAfter),
             Issuer |-> Nil,
             IssuedAt |-> Ptr(certificate.NotBefore)]

crawlMonitoringSSLExpiresEarly(monitoring, env) ==
    IF env.resolveErr \/ env.dialErr \/ Len(env.PeerCertificates) = 0
    THEN InvalidSSLPayload(monitoring)
    ELSE LET certificate == env.PeerCertificates[1]
             issuer == IF certificate.IssuerCN = ""
                       THEN certificate.IssuerDN
                       ELSE certificate.IssuerCN
         IN IF env.now < certificate.NotBefore \/ env.now >= certificate.NotAfter
               \/ ~env.hostOk
            THEN InvalidSSLPayload(monitoring)
            ELSE [MonitoringID |-> monitoring.ID, IsValid |-> TRUE,
                  ExpiresAt |-> Ptr(certificate.NotAfter),
                  Issuer |-> IF issuer = "" THEN Nil ELSE Ptr(issuer),
                  IssuedAt |-> Ptr(certificate.NotBefore)]

crawlMonitoringSSL(monitoring, env) ==
    IF env.resolveErr \/ env.dialErr \/ Len(env.PeerCertificates) = 0
    THEN InvalidSSLPayload(monitoring)
    ELSE LET certificate == env.PeerCertificates[1]
             issuer == IF certificate.IssuerCN = ""
                       THEN certificate.IssuerDN
                       ELSE certificate.IssuerCN
         IN IF env.now < certificate.NotBefore \/ env.now > certificate.NotAfter
            THEN InvalidSSLPayload(monitoring)
            ELSE IF ~env.hostOk
            THEN InvalidSSLPayload(monitoring)
            ELSE [MonitoringID |-> monitoring.ID, IsValid |-> TRUE,
                  ExpiresAt |-> Ptr(certificate.NotAfter),
                  Issuer |-> IF issuer = "" THEN Nil ELSE Ptr(issuer),
                  IssuedAt |-> Ptr(certificate.NotBefore)]

\* the payload a worker of phase p posts for monitoring
ResponsePayload(monitoring, result) ==
    [MonitoringID |-> monitoring.ID, Status |-> result.Status,
     ResponseTime |-> result.ResponseTime]

WorkerPayloads(p, monitoring) ==
    IF p = "response"
    THEN {ResponsePayload(monitoring, crawlResponseMonitoring(monitoring, net)) :
            net \in NetEnvs}
    ELSE {crawlMonitoringSSL(monitoring, env) : env \in TLSEnvs}

\* mutant of MaintenancePayload: a job in maintenance is reported down
MaintenancePayloadDown(monitoring) ==
    [MonitoringID |-> monitoring.ID, Status |-> StatusDown,
     ResponseTime |-> Nil]

\* the payload the dispatcher of the response phase posts for a job in
\* maintenance
MaintenancePayload(monitoring) ==
    [MonitoringID |-> monitoring.ID, Status |-> StatusUnknown,
     ResponseTime |-> Nil]

\* ------------------------------------------------------------ Core client
\* Strings the client trims or tests for emptiness are sequences of
\* characters, so that trimming is computed and not assumed.
RECURSIVE TrimLeft(_, _)
TrimLeft(s, ch) ==
    IF s # <<>> /\ Head(s) = ch THEN TrimLeft(Tail(s), ch) ELSE s

RECURSIVE TrimRight(_, _)
TrimRight(s, ch) ==
    IF s # <<>> /\ s[Len(s)] = ch
    THEN TrimRight(SubSeq(s, 1, Len(s) - 1), ch)
    ELSE s

TrimSpace(s) == TrimRight(TrimLeft(s, " "), " ")

\* the values the configuration may hold
BaseURLs == {<<>>, <<"/">>, <<"u">>, <<"u", "/">>}
APIKeys == {<<>>, <<" ">>, <<"k">>}
InstanceCodes == {<<>>, <<" ">>, <<"a">>, <<"a", " ">>}
Locations == {<<>>, <<" ">>, <<"a">>, <<" ", "a">>, <<"b">>}

NewClient(baseURL, apiKey, instanceCode) ==
    [baseURL |-> TrimRight(baseURL, "/"),
     apiKey |-> TrimSpace(apiKey),
     instanceCode |-> TrimSpace(instanceCode)]

\* a response body as Core sent it: no bytes at all, a JSON array of jobs,
\* or text that is not JSON
EmptyBody == [syntax |-> "empty", items |-> <<>>]
TextBody == [syntax |-> "text", items |-> <<>>]
ArrayBody(items) == [syntax |-> "array", items |-> items]

\* what httpClient.Do and io.ReadAll give back: no response at all, or a
\* status code and the raw body
TransportFailure ==
    [failed |-> TRUE, StatusCode |-> 0, raw |-> EmptyBody]
Response(status, raw) ==
    [failed |-> FALSE, StatusCode |-> status, raw |-> raw]

\* error values
NoError == [kind |-> "nil", msg |-> "", StatusCode |-> 0, Body |-> EmptyBody]
ConfigError(msg) ==
    [kind |-> "config", msg |-> msg, StatusCode |-> 0, Body |-> EmptyBody]
TransportError ==
    [kind |-> "transport", msg |-> "", StatusCode |-> 0, Body |-> EmptyBody]
DecodeError ==
    [kind |-> "decode", msg |-> "", StatusCode |-> 0, Body |-> EmptyBody]
HTTPStatusError(status, raw) ==
    [kind |-> "HTTPStatusError", msg |-> "", StatusCode |-> status,
     Body |-> raw]

StatusBadRequest == 400

\* url.Values of getMonitorings: location always, type when it is not ""
Query(loc, monitoringType) ==
    [k \in {"location"} \cup
           (IF monitoringType # "" THEN {"type"} ELSE {}) |->
        IF k = "location" THEN loc ELSE <<monitoringType>>]

\* the header of a request newRequest builds
Headers(c, hasBody) ==
    [h \in {"Accept"} \cup
           (IF hasBody THEN {"Content-Type"} ELSE {}) \cup
           (IF c.apiKey # <<>> THEN {"X-API-KEY"} ELSE {}) \cup
           (IF c.instanceCode # <<>> THEN {"X-INSTANCE-CODE"} ELSE {}) |->
        CASE h = "X-API-KEY" -> c.apiKey
          [] h = "X-INSTANCE-CODE" -> c.instanceCode
          [] OTHER -> <<"application/json">>]

newRequestAnyBaseURL(c, method, path, query, hasBody) ==
    [err |-> NoError,
     request |-> Ptr([method |-> method, baseURL |-> c.baseURL,
                      path |-> path, query |-> query,
                      header |-> Headers(c, hasBody)])]

\* newRequest: the error or the request built
newRequest(c, method, path, query, hasBody) ==
    IF c.baseURL = <<>>
    THEN [err |-> ConfigError("WEBGUARD_CORE_API_URL is empty"),
          request |-> Nil]
    ELSE [err |-> NoError,
          request |-> Ptr([method |-> method, baseURL |-> c.baseURL,
                           path |-> path, query |-> query,
                           header |-> Headers(c, hasBody)])]

\* a job object of the wire that Monitoring.UnmarshalJSON answers with an
\* error, such as one whose id is a JSON boolean
InvalidJob ==
    [ID |-> 1, Type |-> TypeHTTP, Port |-> 80, MaintenanceActive |-> FALSE,
     rejected |-> TRUE]
Rejected(item) == "rejected" \in DOMAIN item

UnmarshalSkipsRejected(raw) ==
    IF raw.syntax = "array"
    THEN LET Accepted(item) == ~Rejected(item)
         IN  [err |-> NoError, out |-> SelectSeq(raw.items, Accepted)]
    ELSE [err |-> DecodeError, out |-> <<>>]

\* json.Unmarshal of a non-empty body into []monitor.Monitoring: the error
\* of one element's UnmarshalJSON is the error of the whole array
Unmarshal(raw) ==
    IF raw.syntax = "array"
          /\ \A i \in DOMAIN raw.items : ~Rejected(raw.items[i])
    THEN [err |-> NoError, out |-> raw.items]
    ELSE [err |-> DecodeError, out |-> <<>>]

doJSONFailsFromServerErrors(response, hasOut) ==
    IF response.failed
    THEN [err |-> TransportError, out |-> <<>>]
    ELSE IF response.StatusCode >= 500
    THEN [err |-> HTTPStatusError(response.StatusCode, response.raw),
          out |-> <<>>]
    ELSE IF ~hasOut \/ response.raw.syntax = "empty"
    THEN [err |-> NoError, out |-> <<>>]
    ELSE Unmarshal(response.raw)

\* doJSON once Do has returned response; hasOut is out != nil
doJSON(response, hasOut) ==
    IF response.failed
    THEN [err |-> TransportError, out |-> <<>>]
    ELSE IF response.StatusCode >= StatusBadRequest
    THEN [err |-> HTTPStatusError(response.StatusCode, response.raw),
          out |-> <<>>]
    ELSE IF ~hasOut \/ response.raw.syntax = "empty"
    THEN [err |-> NoError, out |-> <<>>]
    ELSE Unmarshal(response.raw)

\* getMonitorings: the request sent, if any, and what the call returns when
\* Do answers it with response
getMonitorings(c, loc, monitoringType, response) ==
    LET built == newRequest(c, "GET", "/api/v1/internal/monitorings",
                            Query(loc, monitoringType), FALSE)
        done == doJSON(response, TRUE)
    IN  IF built.err # NoError
        THEN [err |-> built.err, monitorings |-> <<>>, sent |-> Nil]
        ELSE [err |-> done.err, monitorings |-> done.out,
              sent |-> built.request]

\* an item whose ID was seen replaces the job kept for that ID
RECURSIVE AppendUnseenKeepsLast(_, _, _)
AppendUnseenKeepsLast(items, seen, acc) ==
    IF items = <<>>
    THEN [seen |-> seen, monitorings |-> acc]
    ELSE IF Head(items).ID \in seen
    THEN AppendUnseenKeepsLast(
             Tail(items), seen,
             [i \in DOMAIN acc |->
                 IF acc[i].ID = Head(items).ID THEN Head(items) ELSE acc[i]])
    ELSE AppendUnseenKeepsLast(Tail(items), seen \cup {Head(items).ID},
                               Append(acc, Head(items)))

\* appends every item
AppendUnseenIgnoresSeen(items, seen, acc) ==
    [seen |-> seen \cup {items[i].ID : i \in DOMAIN items},
     monitorings |-> acc \o items]

\* the inner loop of GetMonitorings: append the items whose ID is not in
\* seen, marking each appended ID
RECURSIVE AppendUnseen(_, _, _)
AppendUnseen(items, seen, acc) ==
    IF items = <<>>
    THEN [seen |-> seen, monitorings |-> acc]
    ELSE IF Head(items).ID \in seen
    THEN AppendUnseen(Tail(items), seen, acc)
    ELSE AppendUnseen(Tail(items), seen \cup {Head(items).ID},
                      Append(acc, Head(items)))

\* ------------------------------------------------------------------ state
VARIABLES
    QueueDefaultWorkers, \* cfg.QueueDefaultWorkers
    mainPc,              \* RunMonitoring: "call", "wait", "returned"; "direct"
                         \* when a phase function is called on its own
    result,              \* RunMonitoring's return value once returned
    phases,              \* the WaitGroup phases of RunMonitoring
    phaseErr,            \* responseErr and sslErr of RunMonitoring
    pc,                  \* per phase function: where its goroutine stands
    ret,                 \* per phase function: the error it returned
    monitorings,         \* per phase: the batch GetMonitorings returned
    next,                \* per phase: index of the dispatch loop
    jobsClosed,          \* per phase: close(jobs) has run
    workers,             \* per phase: the WaitGroup workers
    worker,              \* per phase: the worker goroutines
    probes,              \* per phase and entry: probe executions started
    posts,               \* per phase and entry: ids of the post calls made
    mpost,               \* per phase: payload of the dispatcher's post in flight
    postFailed,          \* per phase: a "Failed to post" line was logged
    ctxDone,             \* the ctx passed to RunMonitoring has been cancelled
    client,              \* the *Client: baseURL, apiKey, instanceCode
    call,                \* the client method called and its arguments
    cpc,                 \* where the client call stands
    location,            \* GetMonitorings: the trimmed location
    ti,                  \* GetMonitorings: position of the range over types
    seenTypes,           \* GetMonitorings: the map seenTypes
    seenMonitorings,     \* GetMonitorings: the map seenMonitorings
    merged,              \* GetMonitorings: the local slice monitorings
    requests,            \* the requests handed to httpClient.Do, in order
    answers,             \* what Do returned for each of them
    cret,                \* what the client call returned
    unit,                \* one call of a function: its argument and result
    probe                \* one probe of the response phase

\* variables of the Core client
clientVars ==
    <<client, call, cpc, location, ti, seenTypes, seenMonitorings, merged,
      requests, answers, cret>>

\* the caller's context and the Core client: the runner's steps never
\* assign them
\* a function called on its own and a probe made on its own
unitVars == <<unit, probe>>

coreVars == <<ctxDone, clientVars, unitVars>>

vars ==
    <<QueueDefaultWorkers, mainPc, result, phases, phaseErr, pc, ret,
      monitorings, next, jobsClosed, workers, worker, probes, posts, mpost,
      postFailed, coreVars>>

\* variables of RunMonitoring itself
mainVars == <<mainPc, result, phases, phaseErr>>
\* variables of the dispatch loop and its workers
poolVars ==
    <<monitorings, next, jobsClosed, workers, worker, probes, posts, mpost,
      postFailed>>

WorkerConfigs == (0 - 1)..MaxWorkers

\* The worker goroutines of a phase have no identity: worker[p] is the bag
\* of their states. st is "recv" (blocked in the channel receive), "probing"
\* (inside the probe of entry idx), "posting" (inside the post call for
\* entry idx, with payload) or "exited".
Idle == [st |-> "recv", idx |-> 0, payload |-> Nil]
Exited == [st |-> "exited", idx |-> 0, payload |-> Nil]
Copies(ws, n) == IF n > 0 THEN [x \in {ws} |-> n] ELSE EmptyBag
Replace(bag, old, new) == (bag (-) Copies(old, 1)) (+) Copies(new, 1)

\* no function is called on its own and no probe is made on its own
NoUnit ==
    /\ unit = [fn |-> "none"]
    /\ probe = [pc |-> "none"]

\* no client call is under way
NoCall == [op |-> "none", location |-> <<>>, types |-> <<>>]
NoReturn == [err |-> NoError, monitorings |-> <<>>]

CallLocals ==
    /\ location = <<>>
    /\ ti = 0
    /\ seenTypes = {}
    /\ seenMonitorings = {}
    /\ merged = <<>>
    /\ requests = <<>>
    /\ answers = <<>>
    /\ cret = NoReturn

\* the runner's CoreClient is left abstract: its fetches and posts are the
\* runner's own steps
AbstractClient ==
    /\ client = NewClient(<<"u">>, <<"k">>, <<"a">>)
    /\ call = NoCall
    /\ cpc = "idle"
    /\ CallLocals

InitPhases ==
    /\ ret = [p \in Phases |-> "nil"]
    /\ monitorings = [p \in Phases |-> <<>>]
    /\ next = [p \in Phases |-> 1]
    /\ jobsClosed = [p \in Phases |-> FALSE]
    /\ workers = [p \in Phases |-> 0]
    /\ worker = [p \in Phases |-> EmptyBag]
    /\ probes = [p \in Phases |-> <<>>]
    /\ posts = [p \in Phases |-> <<>>]
    /\ mpost = [p \in Phases |-> Nil]
    /\ postFailed = [p \in Phases |-> FALSE]

\* RunMonitoring has been called
Init ==
    /\ QueueDefaultWorkers \in WorkerConfigs
    /\ mainPc = "call"
    /\ result = "none"
    /\ phases = 0
    /\ phaseErr = [p \in Phases |-> "nil"]
    /\ pc = [p \in Phases |-> "notStarted"]
    /\ InitPhases
    /\ ctxDone = FALSE
    /\ NoUnit
    /\ AbstractClient

\* runResponse or runSSL has been called on its own
InitPhase ==
    /\ QueueDefaultWorkers \in WorkerConfigs
    /\ mainPc = "direct"
    /\ result = "none"
    /\ phases = 0
    /\ phaseErr = [p \in Phases |-> "nil"]
    /\ \E q \in Phases :
          pc = [p \in Phases |-> IF p = q THEN "called" ELSE "notStarted"]
    /\ InitPhases
    /\ ctxDone = FALSE
    /\ NoUnit
    /\ AbstractClient

\* ---------------------------------------------------------- RunMonitoring
\* phases.Add(2) and the two go statements
RunMonitoringStart ==
    /\ mainPc = "call"
    /\ phases' = 2
    /\ pc' = [p \in Phases |-> "called"]
    /\ mainPc' = "wait"
    /\ UNCHANGED <<QueueDefaultWorkers, coreVars, result, phaseErr, ret>>
    /\ UNCHANGED poolVars

\* the goroutine wrapper: responseErr = r.runResponse(ctx); phases.Done()
PhaseDone(p) ==
    /\ mainPc = "wait"
    /\ pc[p] = "returned"
    /\ phaseErr' = [phaseErr EXCEPT ![p] = ret[p]]
    /\ phases' = phases - 1
    /\ pc' = [pc EXCEPT ![p] = "done"]
    /\ UNCHANGED <<QueueDefaultWorkers, coreVars, mainPc, result, ret>>
    /\ UNCHANGED poolVars

\* mutant of RunMonitoringReturn: phases.Wait() lets go after one Done
RunMonitoringReturnEarly ==
    /\ mainPc = "wait"
    /\ phases <= 1
    /\ result' = "nil"
    /\ mainPc' = "returned"
    /\ UNCHANGED <<QueueDefaultWorkers, coreVars, phases, phaseErr, pc, ret>>
    /\ UNCHANGED poolVars

\* mutant of RunMonitoringReturn: a phase error is handed to the caller
RunMonitoringReturnsPhaseError ==
    /\ mainPc = "wait"
    /\ phases = 0
    /\ result' = IF \E p \in Phases : phaseErr[p] = "error"
                 THEN "error" ELSE "nil"
    /\ mainPc' = "returned"
    /\ UNCHANGED <<QueueDefaultWorkers, coreVars, phases, phaseErr, pc, ret>>
    /\ UNCHANGED poolVars

\* phases.Wait() returns; the phase errors are logged; return nil
RunMonitoringReturn ==
    /\ mainPc = "wait"
    /\ phases = 0
    /\ result' = "nil"
    /\ mainPc' = "returned"
    /\ UNCHANGED <<QueueDefaultWorkers, coreVars, phases, phaseErr, pc, ret>>
    /\ UNCHANGED poolVars

\* ------------------------------------------------- runResponse and runSSL
\* mutant of workerCount: the start loop runs once too often (i <= workerCount)
workerCountOffByOne(n) == Max(1, n) + 1

\* max(1, r.cfg.QueueDefaultWorkers)
workerCount(n) == Max(1, n)

\* mutant of GetMonitoringsCall: RunMonitoring runs the phases one after the
\* other, runSSL only once runResponse has returned
GetMonitoringsCallSequential(p) ==
    /\ pc[p] = "called"
    /\ p = "ssl" => pc["response"] \in {"returned", "done"}
    /\ pc' = [pc EXCEPT ![p] = "fetching"]
    /\ UNCHANGED <<QueueDefaultWorkers, coreVars, ret>>
    /\ UNCHANGED mainVars
    /\ UNCHANGED poolVars

\* the phase calls r.client.GetMonitorings, which blocks until Core answers
GetMonitoringsCall(p) ==
    /\ pc[p] = "called"
    /\ pc' = [pc EXCEPT ![p] = "fetching"]
    /\ UNCHANGED <<QueueDefaultWorkers, coreVars, ret>>
    /\ UNCHANGED mainVars
    /\ UNCHANGED poolVars

\* mutant of GetMonitoringsFail: the failing phase cancels its sibling,
\* which gives up where it stands
GetMonitoringsFailCancelsSibling(p) ==
    /\ pc[p] = "fetching"
    /\ ret' = [q \in Phases |->
                 IF q = p \/ pc[q] \notin {"returned", "done"}
                 THEN "error" ELSE ret[q]]
    /\ pc' = [q \in Phases |->
                 IF q = p \/ pc[q] \notin {"notStarted", "returned", "done"}
                 THEN "returned" ELSE pc[q]]
    /\ UNCHANGED <<QueueDefaultWorkers, coreVars>>
    /\ UNCHANGED mainVars
    /\ UNCHANGED poolVars

\* GetMonitorings returns an error: logFetchError, return err
GetMonitoringsFail(p) ==
    /\ pc[p] = "fetching"
    /\ ret' = [ret EXCEPT ![p] = "error"]
    /\ pc' = [pc EXCEPT ![p] = "returned"]
    /\ UNCHANGED <<QueueDefaultWorkers, coreVars>>
    /\ UNCHANGED mainVars
    /\ UNCHANGED poolVars

\* GetMonitorings returns batch: an empty batch returns nil at once, any
\* other makes the channel and starts the workers
GetMonitoringsReturn(p, batch) ==
    /\ pc[p] = "fetching"
    /\ IF Len(batch) = 0
       THEN /\ pc' = [pc EXCEPT ![p] = "returned"]
            /\ UNCHANGED poolVars
       ELSE /\ pc' = [pc EXCEPT ![p] = "dispatch"]
            /\ monitorings' = [monitorings EXCEPT ![p] = batch]
            /\ workers' =
                 [workers EXCEPT ![p] = workerCount(QueueDefaultWorkers)]
            /\ worker' =
                 [worker EXCEPT
                    ![p] = Copies(Idle, workerCount(QueueDefaultWorkers))]
            /\ probes' = [probes EXCEPT ![p] = [i \in 1..Len(batch) |-> 0]]
            /\ posts' = [posts EXCEPT ![p] = [i \in 1..Len(batch) |-> <<>>]]
            /\ UNCHANGED <<next, jobsClosed, mpost, postFailed>>
    /\ UNCHANGED <<QueueDefaultWorkers, coreVars, ret>>
    /\ UNCHANGED mainVars

\* mutant of LoopHasEntry: the loop stops one entry early
LoopHasEntryDropsLast(p) == next[p] < Len(monitorings[p])

\* the dispatch loop has an entry left: for _, monitoring := range monitorings
LoopHasEntry(p) == next[p] <= Len(monitorings[p])

\* mutant of SkipsEntry: the maintenance check is missing from the loop
SkipsEntryNever(monitoring) == FALSE

\* the dispatch loop short-circuits the entry instead of sending it:
\* if monitoring.MaintenanceActive
SkipsEntry(monitoring) == monitoring.MaintenanceActive

\* mutant of PostMaintenance: the post call is made in a goroutine of its
\* own and the loop goes on
PostMaintenanceInBackground(p) ==
    /\ p = "response"
    /\ pc[p] = "dispatch"
    /\ LoopHasEntry(p)
    /\ SkipsEntry(monitorings[p][next[p]])
    /\ mpost' = [mpost EXCEPT
                   ![p] = Ptr(MaintenancePayload(monitorings[p][next[p]]))]
    /\ posts' = [posts EXCEPT
                   ![p][next[p]] = Append(@, monitorings[p][next[p]].ID)]
    /\ next' = [next EXCEPT ![p] = @ + 1]
    /\ UNCHANGED <<QueueDefaultWorkers, coreVars, pc, ret, monitorings, jobsClosed,
                   workers, worker, probes, postFailed>>
    /\ UNCHANGED mainVars

\* runResponse, maintenance entry: the dispatcher itself calls
\* PostMonitoringResponse with status unknown
PostMaintenance(p) ==
    /\ p = "response"
    /\ pc[p] = "dispatch"
    /\ LoopHasEntry(p)
    /\ SkipsEntry(monitorings[p][next[p]])
    /\ mpost' = [mpost EXCEPT
                   ![p] = Ptr(MaintenancePayload(monitorings[p][next[p]]))]
    /\ posts' = [posts EXCEPT
                   ![p][next[p]] = Append(@, monitorings[p][next[p]].ID)]
    /\ pc' = [pc EXCEPT ![p] = "mpost"]
    /\ UNCHANGED <<QueueDefaultWorkers, coreVars, ret, monitorings, next, jobsClosed,
                   workers, worker, probes, postFailed>>
    /\ UNCHANGED mainVars

\* that post call returns; a failure is logged; continue
PostMaintenanceReturn(p, ok) ==
    /\ pc[p] = "mpost"
    /\ mpost' = [mpost EXCEPT ![p] = Nil]
    /\ postFailed' = [postFailed EXCEPT ![p] = @ \/ ~ok]
    /\ next' = [next EXCEPT ![p] = @ + 1]
    /\ pc' = [pc EXCEPT ![p] = "dispatch"]
    /\ UNCHANGED <<QueueDefaultWorkers, coreVars, ret, monitorings, jobsClosed, workers,
                   worker, probes, posts>>
    /\ UNCHANGED mainVars

\* runSSL, maintenance entry: skippedMaintenance++; continue
SkipMaintenance(p) ==
    /\ p = "ssl"
    /\ pc[p] = "dispatch"
    /\ LoopHasEntry(p)
    /\ SkipsEntry(monitorings[p][next[p]])
    /\ next' = [next EXCEPT ![p] = @ + 1]
    /\ UNCHANGED <<QueueDefaultWorkers, coreVars, pc, ret, monitorings, jobsClosed,
                   workers, worker, probes, posts, mpost, postFailed>>
    /\ UNCHANGED mainVars

\* jobs <- monitoring meets the receive of a worker blocked on the
\* unbuffered channel; that worker starts the probe of the entry
SendJob(p) ==
    /\ pc[p] = "dispatch"
    /\ LoopHasEntry(p)
    /\ ~SkipsEntry(monitorings[p][next[p]])
    /\ BagIn(Idle, worker[p])
    /\ worker' = [worker EXCEPT
                    ![p] = Replace(@, Idle, [st |-> "probing", idx |-> next[p],
                                             payload |-> Nil])]
    /\ probes' = [probes EXCEPT ![p][next[p]] = @ + 1]
    /\ next' = [next EXCEPT ![p] = @ + 1]
    /\ UNCHANGED <<QueueDefaultWorkers, coreVars, pc, ret, monitorings, jobsClosed,
                   workers, posts, mpost, postFailed>>
    /\ UNCHANGED mainVars

\* the probe of a worker in state ws returns payload and the worker calls
\* the phase's post function with it
ProbeReturn(p, ws, payload) ==
    /\ BagIn(ws, worker[p])
    /\ ws.st = "probing"
    /\ worker' = [worker EXCEPT
                    ![p] = Replace(@, ws, [ws EXCEPT !.st = "posting",
                                                     !.payload = Ptr(payload)])]
    /\ posts' = [posts EXCEPT ![p][ws.idx] = Append(@, payload.MonitoringID)]
    /\ UNCHANGED <<QueueDefaultWorkers, coreVars, pc, ret, monitorings, next, jobsClosed,
                   workers, probes, mpost, postFailed>>
    /\ UNCHANGED mainVars

\* mutant of PostReturn: a failed post is sent again
PostReturnRetry(p, ws, ok) ==
    /\ BagIn(ws, worker[p])
    /\ ws.st = "posting"
    /\ IF ok
       THEN /\ worker' = [worker EXCEPT ![p] = Replace(@, ws, Idle)]
            /\ UNCHANGED posts
       ELSE /\ posts' = [posts EXCEPT
                           ![p][ws.idx] = Append(@, ws.payload[1].MonitoringID)]
            /\ UNCHANGED worker
    /\ postFailed' = [postFailed EXCEPT ![p] = @ \/ ~ok]
    /\ UNCHANGED <<QueueDefaultWorkers, coreVars, pc, ret, monitorings, next, jobsClosed,
                   workers, probes, mpost>>
    /\ UNCHANGED mainVars

\* the post call of a worker in state ws returns; a failure is logged; the
\* worker receives again
PostReturn(p, ws, ok) ==
    /\ BagIn(ws, worker[p])
    /\ ws.st = "posting"
    /\ worker' = [worker EXCEPT ![p] = Replace(@, ws, Idle)]
    /\ postFailed' = [postFailed EXCEPT ![p] = @ \/ ~ok]
    /\ UNCHANGED <<QueueDefaultWorkers, coreVars, pc, ret, monitorings, next, jobsClosed,
                   workers, probes, posts, mpost>>
    /\ UNCHANGED mainVars

\* mutant of CloseJobs: close(jobs) is missing
CloseJobsForgotten(p) ==
    /\ pc[p] = "dispatch"
    /\ ~LoopHasEntry(p)
    /\ pc' = [pc EXCEPT ![p] = "wait"]
    /\ UNCHANGED <<QueueDefaultWorkers, coreVars, ret, monitorings, next, workers,
                   worker, probes, posts, mpost, postFailed, jobsClosed>>
    /\ UNCHANGED mainVars

\* the loop is over: close(jobs)
CloseJobs(p) ==
    /\ pc[p] = "dispatch"
    /\ ~LoopHasEntry(p)
    /\ jobsClosed' = [jobsClosed EXCEPT ![p] = TRUE]
    /\ pc' = [pc EXCEPT ![p] = "wait"]
    /\ UNCHANGED <<QueueDefaultWorkers, coreVars, ret, monitorings, next, workers,
                   worker, probes, posts, mpost, postFailed>>
    /\ UNCHANGED mainVars

\* the range loop of a worker blocked in the receive ends on the closed
\* channel: workers.Done()
WorkerExit(p) ==
    /\ BagIn(Idle, worker[p])
    /\ jobsClosed[p]
    /\ worker' = [worker EXCEPT ![p] = Replace(@, Idle, Exited)]
    /\ workers' = [workers EXCEPT ![p] = @ - 1]
    /\ UNCHANGED <<QueueDefaultWorkers, coreVars, pc, ret, monitorings, next, jobsClosed,
                   probes, posts, mpost, postFailed>>
    /\ UNCHANGED mainVars

\* mutant of PhaseReturn: workers.Wait() is missing
PhaseReturnNoWait(p) ==
    /\ pc[p] = "wait"
    /\ pc' = [pc EXCEPT ![p] = "returned"]
    /\ UNCHANGED <<QueueDefaultWorkers, coreVars, ret>>
    /\ UNCHANGED mainVars
    /\ UNCHANGED poolVars

\* workers.Wait() returns; the counts are logged; return nil
PhaseReturn(p) ==
    /\ pc[p] = "wait"
    /\ workers[p] = 0
    /\ pc' = [pc EXCEPT ![p] = "returned"]
    /\ UNCHANGED <<QueueDefaultWorkers, coreVars, ret>>
    /\ UNCHANGED mainVars
    /\ UNCHANGED poolVars

\* the workers of phase p in state st
WorkersIn(p, st) == {ws \in BagToSet(worker[p]) : ws.st = st}

PhaseStep(p, batches) ==
    \/ GetMonitoringsCall(p)
    \/ GetMonitoringsFail(p)
    \/ \E batch \in batches : GetMonitoringsReturn(p, batch)
    \/ PostMaintenance(p)
    \/ \E ok \in BOOLEAN : PostMaintenanceReturn(p, ok)
    \/ SkipMaintenance(p)
    \/ SendJob(p)
    \/ \E ws \in WorkersIn(p, "probing") :
          \E payload \in WorkerPayloads(p, monitorings[p][ws.idx]) :
             ProbeReturn(p, ws, payload)
    \/ \E ws \in WorkersIn(p, "posting"), ok \in BOOLEAN : PostReturn(p, ws, ok)
    \/ CloseJobs(p)
    \/ WorkerExit(p)
    \/ PhaseReturn(p)

Next ==
    \/ RunMonitoringStart
    \/ \E p \in Phases : PhaseStep(p, Batches(RunJobs, MaxRunBatch))
    \/ \E p \in Phases : PhaseDone(p)
    \/ RunMonitoringReturn

Spec == Init /\ [][Next]_vars

NextPhase == \E p \in Phases : PhaseStep(p, Batches(CoreJobs, MaxBatch))

SpecPhase == InitPhase /\ [][NextPhase]_vars

\* A phase whose calls all terminate: every fetch, probe and post call
\* returns, and the Go scheduler runs a goroutine that can take a step.
\* Termination depends on the shape of the batch only: the jobs are job 1
\* as an http job, under maintenance or not.
LiveJobs == {m \in CoreJobs : m.ID = 1 /\ m.Type = TypeHTTP}

NextLivePhase == \E p \in Phases : PhaseStep(p, Batches(LiveJobs, MaxBatch))

LivePhase ==
    InitPhase /\ [][NextLivePhase]_vars /\ WF_vars(NextLivePhase)

\* Core may take any time to answer a fetch or a post; the Go scheduler
\* runs every runnable goroutine: RunMonitoring's go statements and each
\* phase's call of GetMonitorings happen once they can.
LiveSpec ==
    /\ Spec
    /\ WF_vars(RunMonitoringStart)
    /\ \A p \in Phases : WF_vars(GetMonitoringsCall(p))

\* ------------------------------------------- a phase under cancellation
\* the caller cancels the ctx it passed
CancelContext ==
    /\ ~ctxDone
    /\ ctxDone' = TRUE
    /\ UNCHANGED <<QueueDefaultWorkers, clientVars, unitVars, pc, ret>>
    /\ UNCHANGED mainVars
    /\ UNCHANGED poolVars

\* what a probe can return: an HTTP request made with a ctx that is done
\* fails, the TCP and TLS dials take no ctx
ProbePayloads(p, monitoring) ==
    IF ctxDone /\ p = "response"
              /\ monitoring.Type \in {TypeHTTP, TypeKeyword}
    THEN {ResponsePayload(monitoring,
                          crawlResponseMonitoring(monitoring, net)) :
            net \in {n \in NetEnvs : n.err}}
    ELSE WorkerPayloads(p, monitoring)

\* the steps of a phase whose ctx may be cancelled at any moment: a Core
\* call made with a ctx that is done fails
CancelStep(p) ==
    \/ GetMonitoringsCall(p)
    \/ GetMonitoringsFail(p)
    \/ /\ ~ctxDone
       /\ \E batch \in Batches(CoreJobs, MaxBatch) :
             GetMonitoringsReturn(p, batch)
    \/ PostMaintenance(p)
    \/ \E ok \in {FALSE, ~ctxDone} : PostMaintenanceReturn(p, ok)
    \/ SkipMaintenance(p)
    \/ SendJob(p)
    \/ \E ws \in WorkersIn(p, "probing") :
          \E payload \in ProbePayloads(p, monitorings[p][ws.idx]) :
             ProbeReturn(p, ws, payload)
    \/ \E ws \in WorkersIn(p, "posting"), ok \in {FALSE, ~ctxDone} :
          PostReturn(p, ws, ok)
    \/ CloseJobs(p)
    \/ WorkerExit(p)
    \/ PhaseReturn(p)

NextCancel ==
    \/ CancelContext
    \/ \E p \in Phases : CancelStep(p)

SpecCancel == InitPhase /\ [][NextCancel]_vars

\* --------------------------------------------------- Core client: a call
\* longest type-filter list a caller passes
MaxTypes == 3
\* most jobs in one answer of Core
MaxAnswer == 2

ClientTypes == {TypeHTTP, TypeKeyword}
TypeLists == UNION {[1..k -> ClientTypes] : k \in 0..MaxTypes}

\* the jobs Core knows: job 1 is visible as http and as keyword
ClientJobs ==
    {m \in Monitoring :
        /\ m.Port = 80
        /\ ~m.MaintenanceActive
        /\ <<m.ID, m.Type>> \in
              {<<1, TypeHTTP>>, <<1, TypeKeyword>>, <<2, TypeHTTP>>}}

\* what Core may answer to one request
CoreResponses(jobs, n) ==
    {TransportFailure}
        \cup {Response(200, ArrayBody(items)) : items \in Batches(jobs, n)}
        \cup {Response(status, raw) :
                 status \in {200, 399, 400, 500},
                 raw \in {EmptyBody, TextBody, ArrayBody(<<>>)}}

ClientOps == {"GetMonitorings", "PostMonitoringResponse", "PostSSLResult"}

\* a client built by NewClient from any configuration, and one call of it
InitClient ==
    /\ \E baseURL \in BaseURLs, apiKey \in APIKeys,
          instanceCode \in InstanceCodes :
          client = NewClient(baseURL, apiKey, instanceCode)
    /\ \E op \in ClientOps, loc \in Locations, types \in TypeLists :
          call = [op |-> op,
                  location |-> IF op = "GetMonitorings" THEN loc ELSE <<>>,
                  types |-> IF op = "GetMonitorings" THEN types ELSE <<>>]
    /\ cpc = "called"
    /\ CallLocals
    /\ QueueDefaultWorkers = 1
    /\ mainPc = "direct"
    /\ result = "none"
    /\ phases = 0
    /\ phaseErr = [p \in Phases |-> "nil"]
    /\ pc = [p \in Phases |-> "notStarted"]
    /\ InitPhases
    /\ ctxDone = FALSE
    /\ NoUnit

runnerVars ==
    <<QueueDefaultWorkers, mainPc, result, phases, phaseErr, pc, ret,
      monitorings, next, jobsClosed, workers, worker, probes, posts, mpost,
      postFailed, ctxDone, unitVars>>

\* return of the client call
Return(err, ms) ==
    /\ cpc' = "returned"
    /\ cret' = [err |-> err, monitorings |-> ms]

\* GetMonitorings up to the choice between the untyped fetch and the loop
ClientGetMonitorings ==
    /\ cpc = "called"
    /\ call.op = "GetMonitorings"
    /\ location' = TrimSpace(call.location)
    /\ IF location' = <<>>
       THEN Return(ConfigError("WEBGUARD_LOCATION is empty"), <<>>)
       ELSE IF client.instanceCode = <<>>
       THEN Return(ConfigError("WEBGUARD_LOCATION is empty"), <<>>)
       ELSE IF location' # client.instanceCode
       THEN Return(ConfigError("location must match instance code"), <<>>)
       ELSE /\ cpc' = IF Len(call.types) = 0 THEN "untyped" ELSE "range"
            /\ cret' = cret
    /\ ti' = 1
    /\ UNCHANGED <<client, call, seenTypes, seenMonitorings, merged,
                   requests, answers>>
    /\ UNCHANGED runnerVars

\* the request sent and the answer got, appended to the logs
Logged(fetched, response) ==
    IF fetched.sent = Nil
    THEN UNCHANGED <<requests, answers>>
    ELSE /\ requests' = requests \o fetched.sent
         /\ answers' = Append(answers, response)

\* len(types) == 0: return c.getMonitorings(ctx, location, "")
ClientGetUntyped(response) ==
    /\ cpc = "untyped"
    /\ LET fetched == getMonitorings(client, location, "", response)
       IN  /\ Logged(fetched, response)
           /\ Return(fetched.err, fetched.monitorings)
    /\ UNCHANGED <<client, call, location, ti, seenTypes, seenMonitorings,
                   merged>>
    /\ UNCHANGED runnerVars

SeenTypeNever(monitoringType) == FALSE

\* _, ok := seenTypes[monitoringType]
SeenType(monitoringType) == monitoringType \in seenTypes

\* the loop meets a type it has seen: continue
ClientRangeSkip ==
    /\ cpc = "range"
    /\ ti <= Len(call.types)
    /\ SeenType(call.types[ti])
    /\ ti' = ti + 1
    /\ UNCHANGED <<client, call, cpc, location, seenTypes, seenMonitorings,
                   merged, requests, answers, cret>>
    /\ UNCHANGED runnerVars

\* the loop meets a new type: mark it, fetch it, merge the items or return
\* the error
ClientRangeFetch(response) ==
    /\ cpc = "range"
    /\ ti <= Len(call.types)
    /\ ~SeenType(call.types[ti])
    /\ seenTypes' = seenTypes \cup {call.types[ti]}
    /\ LET fetched ==
               getMonitorings(client, location, call.types[ti], response)
           appended ==
               AppendUnseen(fetched.monitorings, seenMonitorings, merged)
       IN  /\ Logged(fetched, response)
           /\ IF fetched.err # NoError
              THEN /\ Return(fetched.err, <<>>)
                   /\ UNCHANGED <<ti, seenMonitorings, merged>>
              ELSE /\ seenMonitorings' = appended.seen
                   /\ merged' = appended.monitorings
                   /\ ti' = ti + 1
                   /\ UNCHANGED <<cpc, cret>>
    /\ UNCHANGED <<client, call, location>>
    /\ UNCHANGED runnerVars

\* the loop is over: return monitorings, nil
ClientRangeEnd ==
    /\ cpc = "range"
    /\ ti > Len(call.types)
    /\ Return(NoError, merged)
    /\ UNCHANGED <<client, call, location, ti, seenTypes, seenMonitorings,
                   merged, requests, answers>>
    /\ UNCHANGED runnerVars

PostPath(op) ==
    IF op = "PostMonitoringResponse"
    THEN "/api/v1/internal/monitoring-responses"
    ELSE "/api/v1/internal/ssl-results"

\* PostMonitoringResponse and PostSSLResult
ClientPost(response) ==
    /\ cpc = "called"
    /\ call.op \in {"PostMonitoringResponse", "PostSSLResult"}
    /\ LET built == newRequest(client, "POST", PostPath(call.op), Nil, TRUE)
       IN  IF built.err # NoError
           THEN /\ Return(built.err, <<>>)
                /\ UNCHANGED <<requests, answers>>
           ELSE /\ requests' = requests \o built.request
                /\ answers' = Append(answers, response)
                /\ Return(doJSON(response, FALSE).err, <<>>)
    /\ UNCHANGED <<client, call, location, ti, seenTypes, seenMonitorings,
                   merged>>
    /\ UNCHANGED runnerVars

ClientStep(responses) ==
    \/ ClientGetMonitorings
    \/ \E response \in responses : ClientGetUntyped(response)
    \/ ClientRangeSkip
    \/ \E response \in responses : ClientRangeFetch(response)
    \/ ClientRangeEnd
    \/ \E response \in responses : ClientPost(response)

NextClient == ClientStep(CoreResponses(ClientJobs, MaxAnswer))

SpecClient == InitClient /\ [][NextClient]_vars

\* ------------------------------------------- runSSL on the Core client
\* most jobs in one answer of Core to a fetch of runSSL
MaxSSLAnswer == 1

SSLTypesWithPing == <<TypeHTTP, TypeKeyword, TypePing>>

\* types of runSSL
SSLTypes == <<TypeHTTP, TypeKeyword, TypePort>>

\* the jobs Core answers runSSL with: job 1 as http or as ping, job 2 as a
\* port job under maintenance
SSLJobs ==
    {m \in Monitoring :
        /\ m.Port = 80
        /\ <<m.ID, m.Type, m.MaintenanceActive>> \in
              {<<1, TypeHTTP, FALSE>>, <<1, TypePing, FALSE>>,
               <<2, TypePort, TRUE>>}}

\* what Do gives back to a fetch of runSSL: no response, a status of 400 or
\* above, an array of jobs, or an array whose last job is invalid
SSLResponses ==
    {TransportFailure, Response(StatusBadRequest, TextBody)}
        \cup {Response(200, ArrayBody(items)) :
                 items \in Batches(SSLJobs, MaxSSLAnswer)}
        \cup {Response(200, ArrayBody(Append(items, InvalidJob))) :
                 items \in Batches(SSLJobs, MaxSSLAnswer)}

\* runSSL has been called with a client whose configuration is complete
InitSSL ==
    /\ QueueDefaultWorkers \in WorkerConfigs
    /\ mainPc = "direct"
    /\ result = "none"
    /\ phases = 0
    /\ phaseErr = [p \in Phases |-> "nil"]
    /\ pc = [p \in Phases |-> IF p = "ssl" THEN "called" ELSE "notStarted"]
    /\ InitPhases
    /\ ctxDone = FALSE
    /\ NoUnit
    /\ AbstractClient

\* r.client.GetMonitorings(ctx, r.cfg.WebGuardLocation, types)
SSLGetMonitoringsCall ==
    /\ pc["ssl"] = "called"
    /\ cpc = "idle"
    /\ pc' = [pc EXCEPT !["ssl"] = "fetching"]
    /\ call' = [op |-> "GetMonitorings", location |-> client.instanceCode,
                types |-> SSLTypes]
    /\ cpc' = "called"
    /\ UNCHANGED <<client, location, ti, seenTypes, seenMonitorings, merged,
                   requests, answers, cret>>
    /\ UNCHANGED <<QueueDefaultWorkers, ret, ctxDone, unitVars>>
    /\ UNCHANGED mainVars
    /\ UNCHANGED poolVars

\* the call returned an error
SSLGetMonitoringsFail ==
    /\ cpc = "returned"
    /\ cret.err # NoError
    /\ GetMonitoringsFail("ssl")

\* the call returned monitorings
SSLGetMonitoringsReturn ==
    /\ cpc = "returned"
    /\ cret.err = NoError
    /\ GetMonitoringsReturn("ssl", cret.monitorings)

NextSSL ==
    \/ SSLGetMonitoringsCall
    \/ ClientGetMonitorings
    \/ \E response \in SSLResponses : ClientRangeFetch(response)
    \/ ClientRangeEnd
    \/ SSLGetMonitoringsFail
    \/ SSLGetMonitoringsReturn
    \/ SkipMaintenance("ssl")
    \/ SendJob("ssl")
    \/ \E ws \in WorkersIn("ssl", "probing") :
          \E payload \in WorkerPayloads("ssl", monitorings["ssl"][ws.idx]) :
             ProbeReturn("ssl", ws, payload)
    \/ \E ws \in WorkersIn("ssl", "posting"), ok \in BOOLEAN :
          PostReturn("ssl", ws, ok)
    \/ CloseJobs("ssl")
    \/ WorkerExit("ssl")
    \/ PhaseReturn("ssl")

SpecSSL == InitSSL /\ [][NextSSL]_vars

\* ------------------------------------------------ decoding a job (monitor)
\* longest text of a JSON string or of a JSON number on the wire
MaxChars == 2

\* An int64 or float64 value is the pair of its part above 2^53 and the
\* rest: Wide(h, l) is h * 2^53 + l. Every value met here is below 2^54.
Wide(high, low) == [high |-> high, low |-> low]

Digits == {"0", "1", "3"}
DecimalChars == <<"0", "1", "2", "3", "4", "5", "6", "7", "8", "9">>
DigitOf(d) == DecimalChars[d + 1]
DigitValue(ch) == CHOOSE d \in 0..9 : DecimalChars[d + 1] = ch

\* the texts a wire producer may put into a string
Chars == Digits \cup {" ", "-", "x"}
Texts(alphabet) == UNION {[1..k -> alphabet] : k \in 0..MaxChars}

\* value of a sequence of decimal digits
RECURSIVE DigitsValue(_)
DigitsValue(digits) ==
    IF digits = <<>>
    THEN 0
    ELSE 10 * DigitsValue(SubSeq(digits, 1, Len(digits) - 1))
            + DigitValue(digits[Len(digits)])

\* decimal digits of a natural number
RECURSIVE DecimalDigits(_)
DecimalDigits(n) ==
    IF n < 10
    THEN <<DigitOf(n)>>
    ELSE Append(DecimalDigits(n \div 10), DigitOf(n % 10))

\* JSON values of a field. A number is written as a sign and decimal
\* digits; with high = 1 the text denotes 2^53 plus the value of the digits.
JNull == [kind |-> "null"]
JBool(b) == [kind |-> "bool", b |-> b]
JObject == [kind |-> "object"]
JNumber(neg, high, digits) ==
    [kind |-> "number", neg |-> neg, high |-> high, digits |-> digits]
JString(high, chars) == [kind |-> "string", high |-> high, chars |-> chars]

\* digit sequences a JSON number may consist of: no leading zero
NumberDigits ==
    {ds \in Texts(Digits) : ds # <<>> /\ (Len(ds) > 1 => ds[1] # "0")}

JNumbers ==
    {JNumber(neg, high, ds) :
        neg \in BOOLEAN, high \in {0, 1}, ds \in NumberDigits}
        \ {JNumber(TRUE, 1, ds) : ds \in NumberDigits}

JStrings ==
    {JString(0, chars) : chars \in Texts(Chars)}
        \cup {JString(1, ds) : ds \in NumberDigits}

\* the float64 nearest to an integer, ties to the even mantissa: below 2^53
\* every integer is a float64, from 2^53 to 2^54 every second one is
Float64(n) ==
    IF n.high = 0 \/ n.low % 2 = 0
    THEN n
    ELSE IF n.low % 4 = 1
    THEN Wide(n.high, n.low - 1)
    ELSE Wide(n.high, n.low + 1)

\* encoding/json decoding into a field of type any: nil, bool, float64,
\* string or map
DecodeAny(json) ==
    CASE json.kind = "number" ->
            [kind |-> "float64",
             value |-> Float64(Wide(json.high,
                                    IF json.neg
                                    THEN 0 - DigitsValue(json.digits)
                                    ELSE DigitsValue(json.digits)))]
      [] OTHER -> json

IsDigits(chars) == chars # <<>> /\ \A i \in DOMAIN chars : chars[i] \in Digits

\* strconv.ParseInt(s, 10, 64)
ParseInt(high, chars) ==
    LET signed == chars # <<>> /\ chars[1] \in {"-", "+"}
        digits == IF signed THEN Tail(chars) ELSE chars
        value == DigitsValue(digits)
    IN  IF ~IsDigits(digits)
        THEN [err |-> TRUE, value |-> Wide(0, 0)]
        ELSE [err |-> FALSE,
              value |-> Wide(high, IF signed /\ chars[1] = "-"
                                   THEN 0 - value ELSE value)]

parseInt64Flexible(value) ==
    CASE value.kind = "null" -> [err |-> FALSE, value |-> Wide(0, 0)]
      [] value.kind = "float64" -> [err |-> FALSE, value |-> value.value]
      [] value.kind = "string" ->
            LET trimmed == TrimSpace(value.chars)
            IN  IF trimmed = <<>>
                THEN [err |-> FALSE, value |-> Wide(0, 0)]
                ELSE ParseInt(value.high, trimmed)
      [] OTHER -> [err |-> TRUE, value |-> Wide(0, 0)]

parseIntFlexible(value) == parseInt64Flexible(value)

\* strings.ToLower on the letters met here
ToLower(chars) ==
    [i \in DOMAIN chars |->
        CASE chars[i] = "O" -> "o" [] chars[i] = "N" -> "n"
          [] OTHER -> chars[i]]

TrueWords ==
    {<<"1">>, <<"t", "r", "u", "e">>, <<"y", "e", "s">>, <<"o", "n">>}
FalseWords ==
    {<<"0">>, <<"f", "a", "l", "s", "e">>, <<"n", "o">>, <<"o", "f", "f">>}

parseBoolFlexible(value) ==
    CASE value.kind = "null" -> [err |-> FALSE, value |-> FALSE]
      [] value.kind = "bool" -> [err |-> FALSE, value |-> value.b]
      [] value.kind = "float64" ->
            [err |-> FALSE, value |-> value.value # Wide(0, 0)]
      [] value.kind = "string" ->
            LET trimmed == TrimSpace(ToLower(value.chars))
            IN  IF trimmed = <<>>
                THEN [err |-> FALSE, value |-> FALSE]
                ELSE IF trimmed \in TrueWords
                THEN [err |-> FALSE, value |-> TRUE]
                ELSE IF trimmed \in FalseWords
                THEN [err |-> FALSE, value |-> FALSE]
                ELSE [err |-> TRUE, value |-> FALSE]
      [] OTHER -> [err |-> TRUE, value |-> FALSE]

\* the job objects Core may put into an answer
IDValues == {JNull, JBool(TRUE), JObject} \cup JNumbers \cup JStrings
IntValues ==
    {JNull, JObject, JNumber(FALSE, 0, <<"0">>), JNumber(FALSE, 0, <<"1">>),
     JString(0, <<"1">>), JString(0, <<"x">>)}
BoolValues ==
    {JNull, JObject, JBool(TRUE), JNumber(FALSE, 0, <<"1">>),
     JString(0, <<"O", "N">>), JString(0, <<"n", "o">>),
     JString(0, <<"x">>)}
JobObjects ==
    [id : IDValues, type : {TypeHTTP, TypePort}, timeout : {JNull},
     port : IntValues, maintenance_active : BoolValues]

ZeroMonitoring ==
    [ID |-> Wide(0, 0), Type |-> "", Timeout |-> 0, Port |-> 0,
     MaintenanceActive |-> FALSE]

\* Monitoring.UnmarshalJSON: the error, or the job decoded
UnmarshalJSON(data) ==
    LET id == parseInt64Flexible(DecodeAny(data.id))
        timeout == parseIntFlexible(DecodeAny(data.timeout))
        port == parseIntFlexible(DecodeAny(data.port))
        maintenanceActive ==
            parseBoolFlexible(DecodeAny(data.maintenance_active))
    IN  IF id.err \/ timeout.err \/ port.err \/ maintenanceActive.err
        THEN [err |-> TRUE, m |-> ZeroMonitoring]
        ELSE [err |-> FALSE,
              m |-> [ID |-> id.value, Type |-> data.type,
                     Timeout |-> timeout.value.low, Port |-> port.value.low,
                     MaintenanceActive |-> maintenanceActive.value]]

\* json.Marshal of an int64
MarshalInt64(n) ==
    JNumber(n.low < 0, n.high,
            DecimalDigits(IF n.low < 0 THEN 0 - n.low ELSE n.low))

\* the payloads the runner builds for a job
PayloadKinds == {"response", "maintenance", "ssl"}
PayloadFor(kind, monitoring) ==
    CASE kind = "response" ->
            ResponsePayload(monitoring,
                            [Status |-> StatusDown, ResponseTime |-> Nil])
      [] kind = "maintenance" -> MaintenancePayload(monitoring)
      [] kind = "ssl" -> InvalidSSLPayload(monitoring)

\* Core has put a job object on the wire
InitDecode ==
    /\ \E data \in JobObjects :
          unit = [fn |-> "UnmarshalJSON", data |-> data, pc |-> "called"]
    /\ probe = [pc |-> "none"]
    /\ QueueDefaultWorkers = 1
    /\ mainPc = "direct"
    /\ result = "none"
    /\ phases = 0
    /\ phaseErr = [p \in Phases |-> "nil"]
    /\ pc = [p \in Phases |-> "notStarted"]
    /\ InitPhases
    /\ ctxDone = FALSE
    /\ AbstractClient

\* everything but unit
notUnitVars ==
    <<QueueDefaultWorkers, mainPc, result, phases, phaseErr, pc, ret,
      monitorings, next, jobsClosed, workers, worker, probes, posts, mpost,
      postFailed, ctxDone, clientVars, probe>>

\* json.Unmarshal calls Monitoring.UnmarshalJSON on the object
DecodeJob ==
    /\ unit.fn = "UnmarshalJSON"
    /\ unit.pc = "called"
    /\ LET decoded == UnmarshalJSON(unit.data)
       IN  unit' = [fn |-> "UnmarshalJSON", data |-> unit.data,
                    pc |-> IF decoded.err THEN "failed" ELSE "decoded",
                    m |-> decoded.m]
    /\ UNCHANGED notUnitVars

\* the runner builds a payload for the decoded job and the client marshals
\* it into the body of a post
PostDecodedJob(kind) ==
    /\ unit.fn = "UnmarshalJSON"
    /\ unit.pc = "decoded"
    /\ unit' = [fn |-> "UnmarshalJSON", data |-> unit.data,
                pc |-> "posted", m |-> unit.m, kind |-> kind,
                monitoring_id |->
                    MarshalInt64(PayloadFor(kind, unit.m).MonitoringID)]
    /\ UNCHANGED notUnitVars

NextDecode ==
    \/ DecodeJob
    \/ \E kind \in PayloadKinds : PostDecodedJob(kind)

SpecDecode == InitDecode /\ [][NextDecode]_vars

\* ------------------------------------------------ target resolver (target)
\* Targets are sequences of characters, as the strings of the Core client
\* are. Positions count from 1 and 0 stands for "not found".
MaxTargetChars == 3

Letters == {"h", "s", "p"}
PortDigits == {"9"}
TargetChars == {"h", "9", ":", "/", " "}

HasPrefix(s, prefix) ==
    Len(s) >= Len(prefix) /\ SubSeq(s, 1, Len(prefix)) = prefix

\* strings.Index
Index(s, sub) ==
    LET at == {i \in 1..(Len(s) - Len(sub) + 1) :
                  SubSeq(s, i, i + Len(sub) - 1) = sub}
    IN  IF at = {} THEN 0 ELSE CHOOSE i \in at : \A j \in at : i <= j

\* strings.LastIndex
LastIndex(s, sub) ==
    LET at == {i \in 1..(Len(s) - Len(sub) + 1) :
                  SubSeq(s, i, i + Len(sub) - 1) = sub}
    IN  IF at = {} THEN 0 ELSE CHOOSE i \in at : \A j \in at : i >= j

Contains(s, sub) == Index(s, sub) # 0

\* net.JoinHostPort
JoinHostPort(host, port) ==
    IF Contains(host, <<":">>)
    THEN <<"[">> \o host \o <<"]", ":">> \o port
    ELSE host \o <<":">> \o port

\* net.SplitHostPort of an address without brackets
SplitHostPort(hostport) ==
    LET i == LastIndex(hostport, <<":">>)
        host == SubSeq(hostport, 1, i - 1)
    IN  IF i = 0 \/ Contains(host, <<":">>)
        THEN [err |-> TRUE, host |-> <<>>, port |-> <<>>]
        ELSE [err |-> FALSE, host |-> host,
              port |-> SubSeq(hostport, i + 1, Len(hostport))]

\* net/url getScheme
RECURSIVE getSchemeFrom(_, _)
getSchemeFrom(rawURL, i) ==
    LET none == [err |-> FALSE, scheme |-> <<>>, rest |-> rawURL]
    IN  IF i > Len(rawURL)
        THEN none
        ELSE CASE rawURL[i] \in Letters -> getSchemeFrom(rawURL, i + 1)
               [] rawURL[i] \in PortDigits ->
                     IF i = 1 THEN none ELSE getSchemeFrom(rawURL, i + 1)
               [] rawURL[i] = ":" ->
                     IF i = 1
                     THEN [err |-> TRUE, scheme |-> <<>>, rest |-> <<>>]
                     ELSE [err |-> FALSE,
                           scheme |-> SubSeq(rawURL, 1, i - 1),
                           rest |-> SubSeq(rawURL, i + 1, Len(rawURL))]
               [] OTHER -> none
getScheme(rawURL) == getSchemeFrom(rawURL, 1)

\* net/url parseHost: an optional port is a colon and digits, and a space is
\* no character of a host
parseHost(host) ==
    LET i == LastIndex(host, <<":">>)
        port == SubSeq(host, i + 1, Len(host))
    IN  IF i # 0 /\ \E k \in DOMAIN port : ~(port[k] \in PortDigits)
        THEN [err |-> TRUE, Host |-> <<>>]
        ELSE IF Contains(host, <<" ">>)
        THEN [err |-> TRUE, Host |-> <<>>]
        ELSE [err |-> FALSE, Host |-> host]

\* url.Parse, as far as the Host it returns
Parse(rawURL) ==
    LET sch == getScheme(rawURL)
        rest == sch.rest
        slash == Index(rest, <<"/">>)
        segment == IF slash = 0 THEN rest ELSE SubSeq(rest, 1, slash - 1)
        after == SubSeq(rest, 3, Len(rest))
        end == Index(after, <<"/">>)
        authority == IF end = 0 THEN after ELSE SubSeq(after, 1, end - 1)
    IN  IF sch.err
        THEN [err |-> TRUE, Host |-> <<>>]
        ELSE IF ~HasPrefix(rest, <<"/">>) /\ sch.scheme # <<>>
        THEN [err |-> FALSE, Host |-> <<>>]
        ELSE IF ~HasPrefix(rest, <<"/">>) /\ Contains(segment, <<":">>)
        THEN [err |-> TRUE, Host |-> <<>>]
        ELSE IF (sch.scheme # <<>> \/ ~HasPrefix(rest, <<"/", "/", "/">>))
                    /\ HasPrefix(rest, <<"/", "/">>)
        THEN parseHost(authority)
        ELSE [err |-> FALSE, Host |-> <<>>]

extractHostPort(rawTarget) ==
    LET target == TrimSpace(rawTarget)
        failed == [err |-> TRUE, host |-> <<>>, port |-> <<>>]
        parsedURL ==
            IF Contains(target, <<":", "/", "/">>)
            THEN Parse(target)
            ELSE Parse(<<"/", "/">> \o target)
        hostPort ==
            TrimSpace(IF Contains(target, <<":", "/", "/">>)
                      THEN parsedURL.Host
                      ELSE IF ~parsedURL.err /\ parsedURL.Host # <<>>
                      THEN parsedURL.Host
                      ELSE target)
        split == SplitHostPort(hostPort)
    IN  IF target = <<>>
        THEN failed
        ELSE IF Contains(target, <<":", "/", "/">>) /\ parsedURL.err
        THEN failed
        ELSE IF hostPort = <<>>
        THEN failed
        ELSE IF ~split.err
        THEN split
        ELSE [err |-> FALSE, host |-> hostPort, port |-> <<>>]

TCPAddress(rawTarget, port) ==
    LET hp == extractHostPort(rawTarget)
    IN  IF hp.err \/ port <= 0
        THEN [err |-> TRUE, address |-> <<>>]
        ELSE [err |-> FALSE,
              address |-> JoinHostPort(hp.host, DecimalDigits(port))]

SSLAddressAlways443(rawTarget) ==
    LET hp == extractHostPort(rawTarget)
    IN  IF hp.err
        THEN [err |-> TRUE, address |-> <<>>, serverName |-> <<>>]
        ELSE [err |-> FALSE,
              address |-> JoinHostPort(hp.host, <<"4", "4", "3">>),
              serverName |-> hp.host]

SSLAddressAndServerName(rawTarget) ==
    LET hp == extractHostPort(rawTarget)
        parsedPort == IF hp.port = <<>> THEN <<"4", "4", "3">> ELSE hp.port
    IN  IF hp.err
        THEN [err |-> TRUE, address |-> <<>>, serverName |-> <<>>]
        ELSE [err |-> FALSE,
              address |-> JoinHostPort(hp.host, parsedPort),
              serverName |-> hp.host]

\* a target written as the resolver expects it: a URL, or a bare host with
\* an optional port, with or without a path and surrounding spaces
Written(lead, scheme, host, port, path, trail) ==
    lead \o scheme \o host \o port \o path \o trail
Spaces == {<<>>, <<" ">>}
Schemes == {<<>>, <<"s", ":", "/", "/">>}
Hosts == {<<"h">>}
Ports == {<<>>, <<":", "9">>}
Paths == {<<>>, <<"/", "p">>}
WrittenTargets ==
    {Written(lead, scheme, host, port, path, trail) :
        lead \in Spaces, scheme \in Schemes, host \in Hosts, port \in Ports,
        path \in Paths, trail \in Spaces}

\* the targets a job may carry: written ones and every short text
Targets ==
    WrittenTargets
        \cup UNION {[1..k -> TargetChars] : k \in 0..MaxTargetChars}

TargetPorts == {0, 80}

\* a function of the resolver is called with a target
InitTarget ==
    /\ \E rawTarget \in Targets :
          \/ unit = [fn |-> "SSLAddressAndServerName", pc |-> "called",
                     rawTarget |-> rawTarget]
          \/ \E port \in TargetPorts :
                unit = [fn |-> "TCPAddress", pc |-> "called",
                        rawTarget |-> rawTarget, port |-> port]
    /\ probe = [pc |-> "none"]
    /\ QueueDefaultWorkers = 1
    /\ mainPc = "direct"
    /\ result = "none"
    /\ phases = 0
    /\ phaseErr = [p \in Phases |-> "nil"]
    /\ pc = [p \in Phases |-> "notStarted"]
    /\ InitPhases
    /\ ctxDone = FALSE
    /\ AbstractClient

ReturnSSLAddressAndServerName ==
    /\ unit.fn = "SSLAddressAndServerName"
    /\ unit.pc = "called"
    /\ unit' = [fn |-> unit.fn, pc |-> "returned",
                rawTarget |-> unit.rawTarget,
                out |-> SSLAddressAndServerName(unit.rawTarget)]
    /\ UNCHANGED notUnitVars

ReturnTCPAddress ==
    /\ unit.fn = "TCPAddress"
    /\ unit.pc = "called"
    /\ unit' = [fn |-> unit.fn, pc |-> "returned",
                rawTarget |-> unit.rawTarget, port |-> unit.port,
                out |-> TCPAddress(unit.rawTarget, unit.port)]
    /\ UNCHANGED notUnitVars

NextTarget ==
    \/ ReturnSSLAddressAndServerName
    \/ ReturnTCPAddress

SpecTarget == InitTarget /\ [][NextTarget]_vars

\* ------------------------------------------- one job of the response phase
\* The job is taken through runResponse's dispatcher, a worker's
\* crawlResponseMonitoring with its network operations one by one, and the
\* post of its payload.
fixedHTTPRetryTimes == 1
fixedHTTPRetryDelay == 250
fixedHTTPMaxRedirects == 5

\* longest chain of redirects an endpoint answers with
MaxRedirects == 6

\* time.Duration values are microseconds here; a response time is a number
\* of hundredths of a millisecond
Millisecond == 1000
roundMilliseconds(duration) == (duration + 5) \div 10

\* how long one network operation takes
Durations == {4, 15}

ProbeTargets == {<<>>, <<"h">>, <<":", "/", "/", "h">>}

\* the keywords of keyword jobs and the bodies endpoints answer with
Keywords == {<<>>, <<"k">>}
Bodies == {<<>>, <<"o", "k">>}

ProbeJobs ==
    {monitoring \in
        [ID : {1},
         Type : {TypeHTTP, TypePing, TypeKeyword, TypePort, TypeOther},
         Port : {0, 80},
         MaintenanceActive : BOOLEAN,
         Target : ProbeTargets,
         Keyword : Keywords] :
        monitoring.Type # TypeKeyword => monitoring.Keyword = <<>>}

\* What the endpoint does with one call of httpClient.Do: the transport
\* fails, or it answers after a chain of redirects with a status code and
\* a body; the body may fail to be read.
TransportFails == [kind |-> "fail", redirects |-> 0, statusCode |-> 0,
                   body |-> <<>>]
ReadFails == [kind |-> "readFail", redirects |-> 0, statusCode |-> 200,
              body |-> <<>>]
Answers(redirects, statusCode, body) ==
    [kind |-> "answer", redirects |-> redirects, statusCode |-> statusCode,
     body |-> body]
Behaviours ==
    {TransportFails, ReadFails}
        \cup {Answers(k, statusCode, body) :
                 k \in 0..MaxRedirects, statusCode \in {200, 500},
                 body \in Bodies}

\* the network a job meets: the endpoint's behaviour at the first and at
\* the second call of Do, the outcome of a TCP connect, and the time each
\* operation takes
Worlds(monitoring) ==
    IF monitoring.MaintenanceActive
           \/ ~(monitoring.Type \in {TypeHTTP, TypeKeyword, TypePing,
                                     TypePort})
    THEN [script : {<<TransportFails, TransportFails>>}, dialErr : {TRUE},
          took : {4}]
    ELSE IF monitoring.Type \in {TypePing, TypePort}
    THEN [script : {<<TransportFails, TransportFails>>},
          dialErr : BOOLEAN, took : Durations]
    ELSE [script : [1..2 -> Behaviours], dialErr : {TRUE},
          took : Durations]

\* the CheckRedirect of performHTTPRequest: TRUE when it returns an error;
\* via is len(via), the number of requests made so far
CheckRedirect(via) == via >= fixedHTTPMaxRedirects

\* http.Client.Do against an endpoint that redirects: before each redirect
\* is followed CheckRedirect is asked with the requests made so far
RECURSIVE Follow(_, _)
Follow(redirects, via) ==
    IF redirects = 0
    THEN [err |-> FALSE, requests |-> via]
    ELSE IF CheckRedirect(via)
    THEN [err |-> TRUE, requests |-> via]
    ELSE Follow(redirects - 1, via + 1)

Do(behaviour) ==
    IF behaviour.kind = "fail"
    THEN [err |-> TRUE, requests |-> 1]
    ELSE Follow(behaviour.redirects, 1)

\* the endpoint's behaviour at a call of Do: as at its last scripted call
\* from then on
ScriptAt(world, attempt) ==
    world.script[IF attempt + 1 > Len(world.script)
                 THEN Len(world.script) ELSE attempt + 1]

\* the loop condition attempt < attempts-1 before the sleep
attemptsLeftAlways(attempt) == attempt < 2
attemptsLeftNever(attempt) == attempt < 0
attemptsLeft(attempt) == attempt < (fixedHTTPRetryTimes + 1) - 1

\* the first network operation crawlResponseMonitoring comes to for a job
firstOperationOfAnyType(monitoring) ==
    CASE monitoring.Type \in {TypeHTTP, TypeKeyword} ->
            IF TrimSpace(monitoring.Target) = <<>> THEN "none" ELSE "attempt"
      [] monitoring.Type = TypePort /\ monitoring.Port <= 0 -> "none"
      [] OTHER ->
            IF TCPAddress(monitoring.Target,
                          IF monitoring.Port <= 0 THEN 80
                          ELSE monitoring.Port).err
            THEN "none" ELSE "dial"

firstOperation(monitoring) ==
    CASE monitoring.Type \in {TypeHTTP, TypeKeyword} ->
            IF TrimSpace(monitoring.Target) = <<>> THEN "none" ELSE "attempt"
      [] monitoring.Type = TypePing ->
            IF TCPAddress(monitoring.Target,
                          IF monitoring.Port <= 0 THEN 80
                          ELSE monitoring.Port).err
            THEN "none" ELSE "dial"
      [] monitoring.Type = TypePort ->
            IF monitoring.Port <= 0
            THEN "none"
            ELSE IF TCPAddress(monitoring.Target, monitoring.Port).err
            THEN "none" ELSE "dial"
      [] OTHER -> "none"

NoResult == [Status |-> "none", ResponseTime |-> Nil]

\* a job of the batch is about to be dispatched
InitProbe ==
    /\ \E monitoring \in ProbeJobs :
          \E world \in Worlds(monitoring) :
             probe = [pc |-> "queued", monitoring |-> monitoring,
                      world |-> world, attempt |-> 0, requests |-> 0,
                      dials |-> 0, slept |-> 0, elapsed |-> 0,
                      log |-> <<>>, result |-> NoResult, posted |-> <<>>]
    /\ unit = [fn |-> "none"]
    /\ QueueDefaultWorkers = 1
    /\ mainPc = "direct"
    /\ result = "none"
    /\ phases = 0
    /\ phaseErr = [p \in Phases |-> "nil"]
    /\ pc = [p \in Phases |-> "notStarted"]
    /\ InitPhases
    /\ ctxDone = FALSE
    /\ AbstractClient

\* everything but probe
notProbeVars ==
    <<QueueDefaultWorkers, mainPc, result, phases, phaseErr, pc, ret,
      monitorings, next, jobsClosed, workers, worker, probes, posts, mpost,
      postFailed, ctxDone, clientVars, unit>>

\* what the handlers of monitoring see of a request that has ended;
\* hasKeyword is strings.Contains(body, monitoring.Keyword)
RequestEnv(monitoring, err, behaviour, elapsed) ==
    [addrErr |-> FALSE, err |-> err, statusCode |-> behaviour.statusCode,
     hasKeyword |-> Contains(behaviour.body, monitoring.Keyword),
     elapsed |-> roundMilliseconds(elapsed)]

\* the dispatcher of runResponse posts for a job in maintenance
ProbeMaintenance ==
    /\ probe.pc = "queued"
    /\ probe.monitoring.MaintenanceActive
    /\ probe' = [probe EXCEPT
                    !.pc = "posted",
                    !.posted = <<MaintenancePayload(probe.monitoring)>>]
    /\ UNCHANGED notProbeVars

\* a worker calls crawlResponseMonitoring, which runs up to the handler's
\* first network operation
ProbeStart ==
    /\ probe.pc = "queued"
    /\ ~probe.monitoring.MaintenanceActive
    /\ LET monitoring == probe.monitoring
           failed == [addrErr |-> TRUE, err |-> TRUE, statusCode |-> 0,
                      hasKeyword |-> FALSE, elapsed |-> 0]
       IN  IF firstOperation(monitoring) = "none"
           THEN probe' =
                   [probe EXCEPT
                       !.pc = "returned",
                       !.result =
                           crawlResponseMonitoring(monitoring, failed)]
           ELSE probe' = [probe EXCEPT !.pc = firstOperation(monitoring)]
    /\ UNCHANGED notProbeVars

\* one pass of the loop of performHTTPRequest up to its sleep or return,
\* and the handler's return when performHTTPRequest returns
ProbeAttempt ==
    /\ probe.pc = "attempt"
    /\ LET monitoring == probe.monitoring
           behaviour == ScriptAt(probe.world, probe.attempt)
           newRequestErr == Parse(TrimSpace(monitoring.Target)).err
           response == Do(behaviour)
           elapsed == probe.elapsed + probe.world.took
           outcome ==
               IF response.err
               THEN IF behaviour.kind = "fail" THEN "transport"
                    ELSE "redirects"
               ELSE IF behaviour.kind = "readFail" THEN "read"
               ELSE "response"
           entry == [slept |-> probe.slept, outcome |-> outcome,
                     statusCode |-> behaviour.statusCode]
       IN  IF newRequestErr
           THEN probe' =
                   [probe EXCEPT
                       !.pc = "returned",
                       !.result =
                           crawlResponseMonitoring(
                               monitoring,
                               RequestEnv(monitoring, TRUE, behaviour,
                                          probe.elapsed))]
           ELSE IF response.err /\ attemptsLeft(probe.attempt)
           THEN probe' =
                   [probe EXCEPT
                       !.pc = "sleep",
                       !.requests = @ + response.requests,
                       !.elapsed = elapsed,
                       !.log = Append(@, entry)]
           ELSE probe' =
                   [probe EXCEPT
                       !.pc = "returned",
                       !.requests = @ + response.requests,
                       !.elapsed = elapsed,
                       !.log = Append(@, entry),
                       !.result =
                           crawlResponseMonitoring(
                               monitoring,
                               RequestEnv(monitoring, outcome # "response",
                                          behaviour, elapsed))]
    /\ UNCHANGED notProbeVars

\* time.Sleep(delay); continue
ProbeSleep ==
    /\ probe.pc = "sleep"
    /\ probe' = [probe EXCEPT
                    !.pc = "attempt",
                    !.attempt = @ + 1,
                    !.slept = @ + fixedHTTPRetryDelay,
                    !.elapsed = @ + fixedHTTPRetryDelay * Millisecond]
    /\ UNCHANGED notProbeVars

\* net.DialTimeout of the ping and port handlers, and the handler's return
ProbeDial ==
    /\ probe.pc = "dial"
    /\ LET elapsed == probe.elapsed + probe.world.took
       IN  probe' =
             [probe EXCEPT
                 !.pc = "returned",
                 !.dials = @ + 1,
                 !.elapsed = elapsed,
                 !.result =
                     crawlResponseMonitoring(
                         probe.monitoring,
                         [addrErr |-> FALSE, err |-> probe.world.dialErr,
                          statusCode |-> 0, hasKeyword |-> FALSE,
                          elapsed |-> roundMilliseconds(elapsed)])]
    /\ UNCHANGED notProbeVars

\* the worker posts the payload of the job
ProbePost ==
    /\ probe.pc = "returned"
    /\ probe' = [probe EXCEPT
                    !.pc = "posted",
                    !.posted =
                        <<ResponsePayload(probe.monitoring, probe.result)>>]
    /\ UNCHANGED notProbeVars

NextProbe ==
    \/ ProbeMaintenance
    \/ ProbeStart
    \/ ProbeAttempt
    \/ ProbeSleep
    \/ ProbeDial
    \/ ProbePost

SpecProbe == InitProbe /\ [][NextProbe]_vars

\* ------------------------------------------- one job of the SSL validator
\* crawlMonitoringSSL is called with a job while the peer behaves as env
InitValidate ==
    /\ \E monitoring \in Monitoring, env \in TLSEnvs :
          unit = [fn |-> "crawlMonitoringSSL", pc |-> "called",
                  monitoring |-> monitoring, env |-> env]
    /\ probe = [pc |-> "none"]
    /\ QueueDefaultWorkers = 1
    /\ mainPc = "direct"
    /\ result = "none"
    /\ phases = 0
    /\ phaseErr = [p \in Phases |-> "nil"]
    /\ pc = [p \in Phases |-> "notStarted"]
    /\ InitPhases
    /\ ctxDone = FALSE
    /\ AbstractClient

ReturnCrawlMonitoringSSL ==
    /\ unit.fn = "crawlMonitoringSSL"
    /\ unit.pc = "called"
    /\ unit' = [fn |-> unit.fn, pc |-> "returned",
                monitoring |-> unit.monitoring, env |-> unit.env,
                payload |-> crawlMonitoringSSL(unit.monitoring, unit.env)]
    /\ UNCHANGED notUnitVars

NextValidate == ReturnCrawlMonitoringSSL

SpecValidate == InitValidate /\ [][NextValidate]_vars

\* ------------------------------------------------------ scheduler
\* Time is counted in minutes. The straight-line code of the scheduler
\* takes no time: time passes while RunEveryFiveMinutes is blocked in its
\* select and while the task runs.
FiveMinutes == 5

\* latest wall-clock time met
MaxNow == 60

\* longest run of the task, in minutes
MaxRunTicks == 6

nextFiveMinuteBoundaryNotBefore(now) ==
    IF now % FiveMinutes = 0 THEN now ELSE now - (now % FiveMinutes) + FiveMinutes

nextFiveMinuteBoundary(now) ==
    LET boundary == now - (now % FiveMinutes)
    IN  IF ~(boundary > now) THEN boundary + FiveMinutes ELSE boundary

\* task(ctx) is called, not started as a goroutine
taskRunsAsync == FALSE
taskBlocks == TRUE

\* where the loop goes on after task returned err
afterFailedTaskReturns(err) == IF err THEN "returned" ELSE "reset"
afterTask(err) == "reset"

\* everything but unit and ctxDone
notSchedulerVars ==
    <<QueueDefaultWorkers, mainPc, result, phases, phaseErr, pc, ret,
      monitorings, next, jobsClosed, workers, worker, probes, posts, mpost,
      postFailed, clientVars, probe>>

\* RunEveryFiveMinutes is about to be called at wall-clock time now, with a
\* logger or without one, under a context that may be cancelled already
InitScheduler ==
    /\ \E now \in 0..MaxNow, logger \in BOOLEAN :
          unit = [fn |-> "RunEveryFiveMinutes", pc |-> "notCalled",
                  now |-> now, logger |-> logger,
                  phase |-> now % FiveMinutes, armed |-> FALSE,
                  remaining |-> 0, inFlight |-> 0, runElapsed |-> 0,
                  first |-> TRUE, sinceStart |-> 0, startedAfter |-> 0,
                  startedPhase |-> 0, err |-> FALSE, logged |-> FALSE,
                  cancelledWaiting |-> FALSE]
    /\ ctxDone \in BOOLEAN
    /\ probe = [pc |-> "none"]
    /\ QueueDefaultWorkers = 1
    /\ mainPc = "direct"
    /\ result = "none"
    /\ phases = 0
    /\ phaseErr = [p \in Phases |-> "nil"]
    /\ pc = [p \in Phases |-> "notStarted"]
    /\ InitPhases
    /\ AbstractClient

\* the timer has not fired yet
TimerPending == unit.armed /\ unit.remaining > 0

\* the caller's context is cancelled
SchedulerCancel ==
    /\ ~ctxDone
    /\ unit.pc # "returned"
    /\ ctxDone' = TRUE
    /\ unit' = [unit EXCEPT
                   !.cancelledWaiting =
                       unit.pc = "select" /\ TimerPending]
    /\ UNCHANGED notSchedulerVars

\* time.NewTimer(time.Until(nextFiveMinuteBoundary(time.Now())))
SchedulerStart ==
    /\ unit.pc = "notCalled"
    /\ LET boundary == nextFiveMinuteBoundary(unit.now)
       IN  unit' = [unit EXCEPT
                       !.pc = "select",
                       !.now = 0,
                       !.armed = TRUE,
                       !.remaining = boundary - unit.now,
                       !.cancelledWaiting = ctxDone]
    /\ UNCHANGED <<ctxDone, notSchedulerVars>>

\* case <-ctx.Done(): return, and the deferred timer.Stop()
SchedulerSelectDone ==
    /\ unit.pc = "select"
    /\ ctxDone
    /\ unit' = [unit EXCEPT !.pc = "returned", !.armed = FALSE]
    /\ UNCHANGED <<ctxDone, notSchedulerVars>>

\* case <-timer.C: task(ctx) is invoked
SchedulerSelectTimer ==
    /\ unit.pc = "select"
    /\ unit.armed
    /\ unit.remaining = 0
    /\ unit' = [unit EXCEPT
                   !.pc = IF taskBlocks THEN "task" ELSE "reset",
                   !.armed = FALSE,
                   !.inFlight = @ + 1,
                   !.runElapsed = 0,
                   !.startedAfter = IF unit.first THEN 0 ELSE unit.sinceStart,
                   !.startedPhase = IF unit.first THEN unit.phase ELSE 0,
                   !.sinceStart = 0]
    /\ UNCHANGED <<ctxDone, notSchedulerVars>>

\* task(ctx) returns err, which is logged if there is a logger
SchedulerTaskReturn ==
    /\ unit.inFlight > 0
    /\ taskBlocks => unit.pc = "task"
    /\ \E err \in BOOLEAN :
          unit' = [unit EXCEPT
                      !.pc = IF unit.pc = "task" THEN afterTask(err) ELSE @,
                      !.inFlight = @ - 1,
                      !.first = FALSE,
                      !.err = err,
                      !.logged = err /\ unit.logger]
    /\ UNCHANGED <<ctxDone, notSchedulerVars>>

\* timer.Reset(5 * time.Minute)
SchedulerReset ==
    /\ unit.pc = "reset"
    /\ unit' = [unit EXCEPT
                   !.pc = "select",
                   !.armed = TRUE,
                   !.remaining = FiveMinutes]
    /\ UNCHANGED <<ctxDone, notSchedulerVars>>

\* a minute passes while the scheduler is blocked in the select or the task
\* runs
SchedulerTick ==
    /\ \/ unit.pc = "select" /\ ~ctxDone /\ TimerPending
       \/ unit.pc = "task" /\ unit.runElapsed < MaxRunTicks
    /\ unit' = [unit EXCEPT
                   !.phase = (@ + 1) % FiveMinutes,
                   !.remaining = IF TimerPending THEN @ - 1 ELSE @,
                   !.runElapsed = IF unit.pc = "task" THEN @ + 1 ELSE @,
                   !.sinceStart = IF @ < FiveMinutes + MaxRunTicks
                                  THEN @ + 1 ELSE @]
    /\ UNCHANGED <<ctxDone, notSchedulerVars>>

\* nextFiveMinuteBoundary is called with a wall-clock time
InitBoundary ==
    /\ \E now \in 0..MaxNow :
          unit = [fn |-> "nextFiveMinuteBoundary", pc |-> "called",
                  now |-> now]
    /\ ctxDone \in BOOLEAN
    /\ probe = [pc |-> "none"]
    /\ QueueDefaultWorkers = 1
    /\ mainPc = "direct"
    /\ result = "none"
    /\ phases = 0
    /\ phaseErr = [p \in Phases |-> "nil"]
    /\ pc = [p \in Phases |-> "notStarted"]
    /\ InitPhases
    /\ AbstractClient

ReturnNextFiveMinuteBoundary ==
    /\ unit.fn = "nextFiveMinuteBoundary"
    /\ unit.pc = "called"
    /\ unit' = [fn |-> unit.fn, pc |-> "returned", now |-> unit.now,
                boundary |-> nextFiveMinuteBoundary(unit.now)]
    /\ UNCHANGED notUnitVars

NextBoundary == ReturnNextFiveMinuteBoundary

SpecBoundary == InitBoundary /\ [][NextBoundary]_vars

SchedulerStep ==
    \/ SchedulerStart
    \/ SchedulerSelectDone
    \/ SchedulerSelectTimer
    \/ SchedulerReset

NextScheduler ==
    \/ SchedulerCancel
    \/ SchedulerStep
    \/ SchedulerTaskReturn
    \/ SchedulerTick

SpecScheduler == InitScheduler /\ [][NextScheduler]_vars

\* the goroutine of the scheduler runs when it can and time passes
LiveScheduler ==
    /\ SpecScheduler
    /\ WF_vars(SchedulerStep)
    /\ WF_vars(SchedulerTick)

\* ----------------------------------------------------------------- claims
\* the phase function of p has returned
Finished(p) == pc[p] \in {"returned", "done"}

\* the phase function of p has returned after dispatching a batch
Dispatched(p) == Finished(p) /\ Len(monitorings[p]) > 0

\* number of workers of phase p inside a probe
ProbingCount(p) ==
    BagCardinality([ws \in WorkersIn(p, "probing") |-> worker[p][ws]])

\* entry i of p's batch has been handled the way its phase handles it
Handled(p, i) ==
    LET monitoring == monitorings[p][i]
    IN IF ~monitoring.MaintenanceActive
       THEN probes[p][i] = 1 /\ posts[p][i] = <<monitoring.ID>>
       ELSE /\ probes[p][i] = 0
            /\ posts[p][i] = IF p = "response" THEN <<monitoring.ID>> ELSE <<>>

\* C1: in each phase at most max(1, QueueDefaultWorkers) jobs are inside a
\* probe at any moment, for every batch and every configured worker count,
\* zero and negative included.
C1_ProbesBoundedByWorkerCount ==
    \A p \in Phases :
        ProbingCount(p) <= (IF QueueDefaultWorkers >= 1
                            THEN QueueDefaultWorkers ELSE 1)

\* C1 witness: with two or more workers configured, as many jobs as workers
\* are being probed at once.
C1_Witness ==
    \E p \in Phases :
        QueueDefaultWorkers >= 2 /\ ProbingCount(p) = QueueDefaultWorkers

\* C2: every non-maintenance entry of a fetched batch is probed at most once
\* and posted at most once, always with its own id, and once the phase has
\* returned it has been probed exactly once and posted exactly once.
C2_EachJobProbedAndPostedOnce ==
    \A p \in Phases :
        \A i \in DOMAIN monitorings[p] :
            ~monitorings[p][i].MaintenanceActive =>
                /\ probes[p][i] <= 1
                /\ posts[p][i] \in {<<>>, <<monitorings[p][i].ID>>}
                /\ Len(posts[p][i]) <= probes[p][i]
                /\ Finished(p) => Handled(p, i)

\* C2 witness: a phase with two workers has returned after a batch of two
\* non-maintenance entries with different ids, both probed and posted.
C2_Witness ==
    \E p \in Phases :
        /\ Finished(p)
        /\ QueueDefaultWorkers = 2
        /\ Len(monitorings[p]) = 2
        /\ monitorings[p][1].ID # monitorings[p][2].ID
        /\ \A i \in 1..2 :
              ~monitorings[p][i].MaintenanceActive /\ Handled(p, i)

\* C3: in the response phase a maintenance entry is never probed; the only
\* post made for it is the dispatcher's, whose payload carries the entry's
\* id, status unknown and no response time; once the phase has returned
\* exactly one such post has been made.
C3_ResponseMaintenancePostsUnknown ==
    /\ \A i \in DOMAIN monitorings["response"] :
          monitorings["response"][i].MaintenanceActive =>
              /\ probes["response"][i] = 0
              /\ Len(posts["response"][i]) <= 1
              /\ \A ws \in BagToSet(worker["response"]) : ws.idx # i
              /\ Finished("response") => Handled("response", i)
    /\ pc["response"] = "mpost" =>
          /\ monitorings["response"][next["response"]].MaintenanceActive
          /\ mpost["response"] =
                Ptr([MonitoringID |->
                        monitorings["response"][next["response"]].ID,
                     Status |-> StatusUnknown,
                     ResponseTime |-> Nil])

\* C3 witness: the dispatcher's post for a maintenance entry is in flight
\* while a worker probes an earlier entry.
C3_Witness ==
    /\ pc["response"] = "mpost"
    /\ mpost["response"] # Nil
    /\ ProbingCount("response") = 1

\* C4: in the SSL phase a maintenance entry is never handed to the TLS
\* validator and no SSL result is ever posted for it.
C4_SSLMaintenanceSkipped ==
    \A i \in DOMAIN monitorings["ssl"] :
        monitorings["ssl"][i].MaintenanceActive =>
            /\ probes["ssl"][i] = 0
            /\ posts["ssl"][i] = <<>>
            /\ \A ws \in BagToSet(worker["ssl"]) : ws.idx # i

\* C4 witness: runSSL has returned after a batch holding a maintenance entry
\* and a posted non-maintenance entry.
C4_Witness ==
    /\ Finished("ssl")
    /\ Len(monitorings["ssl"]) = 2
    /\ monitorings["ssl"][1].MaintenanceActive
    /\ ~monitorings["ssl"][2].MaintenanceActive
    /\ Handled("ssl", 2)

\* C5: once a phase function has returned, none of its workers is probing
\* or posting (all have exited) and no post of the dispatcher is in flight.
C5_PhaseReturnsAfterAllJobs ==
    \A p \in Phases :
        Finished(p) =>
            /\ \A ws \in BagToSet(worker[p]) : ws.st = "exited"
            /\ workers[p] = 0
            /\ mpost[p] = Nil

\* C5 witness: a phase with two workers has returned after dispatching two
\* entries to them.
C5_Witness ==
    \E p \in Phases :
        /\ Finished(p)
        /\ BagCardinality(worker[p]) = 2
        /\ Len(monitorings[p]) = 2
        /\ \A i \in 1..2 : probes[p][i] = 1

\* C6: no entry is ever posted more than once, and when the phase has
\* returned after some post call failed, it returned nil and every entry of
\* the batch has still been handled (probed and posted once).
C6_PostFailureOnlyLogged ==
    \A p \in Phases :
        /\ \A i \in DOMAIN posts[p] : Len(posts[p][i]) <= 1
        /\ (Finished(p) /\ postFailed[p]) =>
              /\ ret[p] = "nil"
              /\ \A i \in DOMAIN monitorings[p] : Handled(p, i)

\* C6 witness: a phase has returned after a failed post, with two
\* non-maintenance entries in its batch.
C6_Witness ==
    \E p \in Phases :
        /\ Finished(p)
        /\ postFailed[p]
        /\ Len(monitorings[p]) = 2
        /\ \A i \in 1..2 : ~monitorings[p][i].MaintenanceActive

\* both phases are inside GetMonitorings
BothFetching == \A p \in Phases : pc[p] = "fetching"

\* some fetch has come back
SomeFetchCompleted ==
    \E p \in Phases : pc[p] \notin {"notStarted", "called", "fetching"}

\* C7: the phases run concurrently: unless a fetch completes first, a state
\* is reached in which both fetches have started and neither has completed;
\* in particular when both fetches block forever.
C7_PhasesFetchConcurrently == <>(BothFetching \/ SomeFetchCompleted)

\* C7 witness: both fetches have started and neither has completed.
C7_Witness == BothFetching /\ ~SomeFetchCompleted

\* C8: RunMonitoring returns only after both phase functions have returned
\* and their goroutines are done, whether they failed or not.
C8_ReturnsAfterBothPhases ==
    mainPc = "returned" => \A p \in Phases : pc[p] = "done"

\* C8 witness: RunMonitoring has returned after one phase failed and the
\* other dispatched a batch.
C8_Witness ==
    /\ mainPc = "returned"
    /\ \E p, q \in Phases : phaseErr[p] = "error" /\ Dispatched(q)

\* C9: whatever failed in the phases, RunMonitoring's result is nil.
C9_RunMonitoringReturnsNil ==
    mainPc = "returned" => result = "nil"

\* C9 witness: RunMonitoring has returned after a fetch failure in one
\* phase and a post failure in the other.
C9_Witness ==
    /\ mainPc = "returned"
    /\ \E p, q \in Phases : phaseErr[p] = "error" /\ postFailed[q]

\* C10: a phase whose fetch failed has started no worker, dispatched no job
\* and posted nothing; and when RunMonitoring has returned, the sibling of
\* a failed phase has itself fetched and, unless its own fetch failed too,
\* handled every entry of its batch.
C10_FetchFailureIsolated ==
    \A p \in Phases :
        ret[p] = "error" =>
            /\ worker[p] = EmptyBag
            /\ workers[p] = 0
            /\ monitorings[p] = <<>>
            /\ probes[p] = <<>>
            /\ posts[p] = <<>>
            /\ ~postFailed[p]
            /\ mainPc = "returned" =>
                  \A q \in Phases \ {p} :
                      /\ Finished(q)
                      /\ ret[q] = "error" \/
                            \A i \in DOMAIN monitorings[q] : Handled(q, i)

\* C10 witness: RunMonitoring has returned, one phase failed to fetch and
\* its sibling probed and posted a job.
C10_Witness ==
    /\ mainPc = "returned"
    /\ \E p, q \in Phases :
          /\ ret[p] = "error"
          /\ Dispatched(q)
          /\ probes[q][1] = 1
          /\ Handled(q, 1)

\* C11: once the ctx passed to the run is cancelled, no probe is started:
\* from then on the count of probe executions of every batch entry, of
\* either phase and of every job type, stays what it was.
C11_NoProbeStartsAfterCancel == [][ctxDone => probes' = probes]_vars

\* no two jobs of ms have the same id
NoDuplicateIds(ms) ==
    \A i, j \in DOMAIN ms : ms[i].ID = ms[j].ID => i = j

\* a GetMonitorings call with a non-empty type-filter list
TypedCall == call.op = "GetMonitorings" /\ Len(call.types) > 0

\* the answer of Core to the k-th request holds a job with this id
AnswerHasId(k, id) ==
    \E i \in DOMAIN answers[k].raw.items : answers[k].raw.items[i].ID = id

\* C12: for every non-empty type-filter list and every answer of Core, the
\* sequence GetMonitorings builds and the sequence it returns hold no two
\* jobs with the same id.
C12_TypedResultHasNoDuplicateIds ==
    TypedCall =>
        /\ NoDuplicateIds(merged)
        /\ cpc = "returned" => NoDuplicateIds(cret.monitorings)

\* C12 witness: a typed call has returned jobs after Core answered the
\* first request with the same id twice and the second request with that
\* id again.
C12_Witness ==
    /\ TypedCall
    /\ cpc = "returned"
    /\ cret.err = NoError
    /\ Len(cret.monitorings) > 0
    /\ Len(answers) = 2
    /\ Len(answers[1].raw.items) = 2
    /\ \A i \in DOMAIN answers[1].raw.items : answers[1].raw.items[i].ID = 1
    /\ AnswerHasId(2, 1)

\* a GetMonitorings call with an empty type-filter list
UntypedCall == call.op = "GetMonitorings" /\ Len(call.types) = 0

\* C13: with an empty type-filter list, a GetMonitorings call that returns
\* jobs has sent exactly one request, that request has no type parameter,
\* and no two returned jobs share an id.
C13_UntypedResultDeduplicated ==
    (UntypedCall /\ cpc = "returned" /\ cret.err = NoError) =>
        /\ Len(requests) = 1
        /\ "type" \notin DOMAIN requests[1].query
        /\ NoDuplicateIds(cret.monitorings)

\* the distinct elements of a list of types, in the order of their first
\* occurrence
RECURSIVE FirstOccurrences(_)
FirstOccurrences(types) ==
    IF types = <<>>
    THEN <<>>
    ELSE LET front == SubSeq(types, 1, Len(types) - 1)
             last == types[Len(types)]
         IN  IF \E i \in DOMAIN front : front[i] = last
             THEN FirstOccurrences(front)
             ELSE Append(FirstOccurrences(front), last)

\* the type parameters of the requests sent so far
RequestedTypes == [k \in DOMAIN requests |-> requests[k].query["type"]]

RECURSIVE Concatenated(_)
Concatenated(as) ==
    IF as = <<>> THEN <<>> ELSE Head(as).raw.items \o Concatenated(Tail(as))

\* ms without every job whose id occurs earlier in ms
RECURSIVE WithoutLaterOccurrences(_)
WithoutLaterOccurrences(ms) ==
    IF ms = <<>>
    THEN <<>>
    ELSE LET front == SubSeq(ms, 1, Len(ms) - 1)
             last == ms[Len(ms)]
         IN  IF \E i \in DOMAIN front : front[i].ID = last.ID
             THEN WithoutLaterOccurrences(front)
             ELSE Append(WithoutLaterOccurrences(front), last)

\* C15: the sequence a typed GetMonitorings has merged so far, and the one
\* it returns without error, is the concatenation of the answers in request
\* order without every later occurrence of an id already seen.
C15_MergeKeepsFirstOccurrence ==
    TypedCall =>
        /\ cpc = "range" =>
              merged = WithoutLaterOccurrences(Concatenated(answers))
        /\ (cpc = "returned" /\ cret.err = NoError) =>
              cret.monitorings = WithoutLaterOccurrences(Concatenated(answers))

\* C15 witness: job 1 came first as http and then as keyword, after job 2,
\* and the call returned job 2 followed by the http form of job 1.
C15_Witness ==
    /\ TypedCall
    /\ cpc = "returned"
    /\ cret.err = NoError
    /\ Len(answers) = 2
    /\ Len(answers[1].raw.items) = 2
    /\ answers[1].raw.items[1].ID = 2
    /\ answers[1].raw.items[2].ID = 1
    /\ answers[1].raw.items[2].Type = TypeHTTP
    /\ Len(answers[2].raw.items) = 2
    /\ answers[2].raw.items[1].ID = 1
    /\ answers[2].raw.items[1].Type = TypeKeyword
    /\ cret.monitorings = answers[1].raw.items

\* the call is a GetMonitorings that must fail for the reason given
FailsWhen(reason) ==
    (call.op = "GetMonitorings" /\ reason) =>
        /\ requests = <<>>
        /\ cpc = "returned" => cret.err # NoError

\* C16 as stated: GetMonitorings sends no request and returns an error when
\* the base URL is empty, when the location is empty after trimming, when
\* the client's instance code is empty, or when the location passed differs
\* from the client's instance code.
C16_InvalidConfigurationFails ==
    FailsWhen(\/ client.baseURL = <<>>
              \/ TrimSpace(call.location) = <<>>
              \/ client.instanceCode = <<>>
              \/ call.location # client.instanceCode)

\* C16 amended: GetMonitorings sends no request and returns an error when
\* the base URL is empty, when the location is empty after trimming, when
\* the client's instance code is empty, or when the location differs from
\* the client's instance code after its surrounding spaces are trimmed.
C16_InvalidConfigurationFailsAfterTrimming ==
    FailsWhen(\/ client.baseURL = <<>>
              \/ TrimSpace(call.location) = <<>>
              \/ client.instanceCode = <<>>
              \/ TrimSpace(call.location) # client.instanceCode)

\* C16 witness: a call for location b on a client of instance a, with a
\* base URL, has returned the mismatch error without any request.
C16_Witness ==
    /\ call.op = "GetMonitorings"
    /\ call.location = <<"b">>
    /\ client.instanceCode = <<"a">>
    /\ client.baseURL # <<>>
    /\ cpc = "returned"
    /\ cret.err = ConfigError("location must match instance code")
    /\ requests = <<>>

\* C17: a GetMonitorings of a client whose API key is empty sends no request
\* and, once it has returned, has returned a configuration error.
C17_EmptyAPIKeyFails ==
    (call.op = "GetMonitorings" /\ client.apiKey = <<>>) =>
        /\ requests = <<>>
        /\ cpc = "returned" => cret.err.kind = "config"

\* C18: every request handed to httpClient.Do has an X-API-KEY header and an
\* X-INSTANCE-CODE header.
C18_RequestsCarryBothHeaders ==
    \A k \in DOMAIN requests :
        {"X-API-KEY", "X-INSTANCE-CODE"} \subseteq DOMAIN requests[k].header

\* the answer to the last request sent
LastAnswer == answers[Len(answers)]

\* C19: a call ends with the first response of status 400 or more and
\* returns an HTTPStatusError with that status and that raw body, and it
\* returns such an error in no other case; a response of status below 400
\* makes a post succeed whatever its body, and makes a fetch go on or
\* succeed whenever its body is empty or decodes (a body that does not
\* decode is a decode error, not a status error).
C19_StatusDecidesOutcome ==
    /\ \A k \in DOMAIN answers :
          (~answers[k].failed /\ answers[k].StatusCode >= 400) =>
              /\ k = Len(answers)
              /\ cpc = "returned"
              /\ cret.err =
                    HTTPStatusError(answers[k].StatusCode, answers[k].raw)
    /\ cret.err.kind = "HTTPStatusError" =>
          /\ answers # <<>>
          /\ ~LastAnswer.failed
          /\ LastAnswer.StatusCode >= 400
    /\ (cpc = "returned" /\ answers # <<>> /\ ~LastAnswer.failed
            /\ LastAnswer.StatusCode < 400) =>
          IF call.op = "GetMonitorings" /\ LastAnswer.raw.syntax = "text"
          THEN cret.err = DecodeError
          ELSE cret.err = NoError

\* C19 witness: a fetch went on after a response of status 399 and returned
\* the HTTPStatusError of the next response, status 400 with a text body.
C19_Witness ==
    /\ call.op = "GetMonitorings"
    /\ cpc = "returned"
    /\ Len(answers) = 2
    /\ answers[1].StatusCode = 399
    /\ LastAnswer = Response(400, TextBody)
    /\ cret.err = HTTPStatusError(400, TextBody)

\* no ping job of the SSL batch has been handed to the TLS validator and no
\* SSL result has been posted for one
NoPingValidated ==
    \A i \in DOMAIN monitorings["ssl"] :
        monitorings["ssl"][i].Type = TypePing =>
            /\ probes["ssl"][i] = 0
            /\ posts["ssl"][i] = <<>>

\* Core has answered every typed request with jobs of the requested type
AnswersHonourType ==
    \A k \in DOMAIN answers :
        \A i \in DOMAIN answers[k].raw.items :
            <<answers[k].raw.items[i].Type>> = requests[k].query["type"]

\* C20 as stated: whatever Core answers to the typed fetches of the SSL
\* phase, no ping job is handed to the TLS validator or posted.
C20_SSLNeverValidatesPing == NoPingValidated

\* C20 amended: no request of the SSL phase asks for the type ping, and when
\* Core answers every request with jobs of the requested type only, the
\* batch of the SSL phase holds no ping job, so that none is handed to the
\* TLS validator or posted.
C20_SSLNeverValidatesPingOfHonestCore ==
    /\ \A k \in DOMAIN requests : requests[k].query["type"] # <<TypePing>>
    /\ AnswersHonourType =>
          /\ \A i \in DOMAIN merged : merged[i].Type # TypePing
          /\ \A i \in DOMAIN monitorings["ssl"] :
                monitorings["ssl"][i].Type # TypePing
          /\ NoPingValidated

\* C20 witness: Core answered the three requests by type, the batch held
\* the http job and the port job, and the http job was validated and
\* posted before runSSL returned.
C20_Witness ==
    /\ AnswersHonourType
    /\ Len(requests) = 3
    /\ Finished("ssl")
    /\ Len(monitorings["ssl"]) = 2
    /\ monitorings["ssl"][1].Type = TypeHTTP
    /\ probes["ssl"][1] = 1
    /\ Len(posts["ssl"][1]) = 1


\* the integer a JSON number, or a JSON string of decimal digits, denotes
Denotes(json) ==
    IF json.kind = "number"
    THEN Wide(json.high,
              IF json.neg THEN 0 - DigitsValue(json.digits)
              ELSE DigitsValue(json.digits))
    ELSE ParseInt(json.high, json.chars).value

\* the id Core sent is an integer: a number, or a string of decimal digits
SentInteger(json) ==
    \/ json.kind = "number"
    \/ json.kind = "string" /\ ~ParseInt(json.high, json.chars).err

\* C21: the monitoring_id of every result posted for a job equals the id Core
\* sent for that job.
C21_IdRoundTrips ==
    (unit.fn = "UnmarshalJSON" /\ unit.pc = "posted"
        /\ SentInteger(unit.data.id))
        => Denotes(unit.monitoring_id) = Denotes(unit.data.id)

\* the JSON string of the decimal digits of a JSON number
StringOf(json) ==
    JString(json.high,
            (IF json.neg THEN <<"-">> ELSE <<>>) \o json.digits)

\* C22: a job whose id is the JSON number n decodes as the job whose id is
\* the JSON string of n's decimal digits does, and a job whose id is a JSON
\* object is rejected with a decode error.
C22_NumberAndStringDecodeAlike ==
    (unit.fn = "UnmarshalJSON" /\ unit.pc \in {"decoded", "failed"})
        => /\ unit.data.id.kind = "number"
                => LET other ==
                           UnmarshalJSON([unit.data EXCEPT
                                             !.id = StringOf(unit.data.id)])
                   IN  /\ other.err = (unit.pc = "failed")
                       /\ other.m = unit.m
           /\ unit.data.id.kind = "object" => unit.pc = "failed"


\* a probe of the given types that has come back from its handler
ProbeReturned(types) ==
    /\ probe.pc \in {"returned", "posted"}
    /\ ~probe.monitoring.MaintenanceActive
    /\ probe.monitoring.Type \in types

\* the endpoint answers the given status codes, without redirects, to the
\* first and to the next request
EndpointAnswers(first, second) ==
    /\ \E body \in Bodies :
          probe.world.script[1] = Answers(0, first, body)
    /\ \E body \in Bodies :
          probe.world.script[2] = Answers(0, second, body)

\* C23 as stated: an HTTP probe against an endpoint that answers 500 to the
\* first request and 200 to the next one ends up after exactly one retry
\* made after the 250ms delay.
C23_RetryAfterServerError ==
    (ProbeReturned({TypeHTTP}) /\ probe.log # <<>>
        /\ EndpointAnswers(500, 200))
        => /\ probe.result.Status = StatusUp
           /\ Len(probe.log) = 2
           /\ probe.log[2].slept = fixedHTTPRetryDelay

\* C23 amended: an HTTP probe whose first request fails in the transport
\* and whose next request is answered 200 ends up after exactly one retry
\* made after the 250ms delay; an endpoint that answers 500 to the first
\* request ends the probe as down after that one request.
C23_RetryAfterTransportFailure ==
    (ProbeReturned({TypeHTTP}) /\ probe.log # <<>>)
        => /\ (/\ probe.world.script[1] = TransportFails
               /\ \E body \in Bodies :
                     probe.world.script[2] = Answers(0, 200, body))
                  => /\ probe.result.Status = StatusUp
                     /\ Len(probe.log) = 2
                     /\ probe.requests = 2
                     /\ probe.log[2].slept = fixedHTTPRetryDelay
           /\ (\E body \in Bodies :
                  probe.world.script[1] = Answers(0, 500, body))
                  => /\ probe.result = [Status |-> StatusDown,
                                        ResponseTime |-> Nil]
                     /\ Len(probe.log) = 1
                     /\ probe.requests = 1
                     /\ probe.slept = 0

C23_Witness ==
    /\ ProbeReturned({TypeHTTP})
    /\ probe.world.script[1] = TransportFails
    /\ probe.world.script[2] = Answers(0, 200, <<>>)
    /\ probe.result.Status = StatusUp
    /\ Len(probe.log) = 2

\* the attempt of performHTTPRequest ended without a response to return
AttemptFailed(entry) == entry.outcome \in {"transport", "redirects", "read"}

C25_FiveRedirectsFollowed ==
    (ProbeReturned({TypeHTTP, TypeKeyword}) /\ probe.log # <<>>
        /\ probe.world.script[1].kind = "answer")
        => (probe.log[1].outcome = "response"
               <=> probe.world.script[1].redirects <= 5)

\* C26: when the TCP connect fails, a ping probe returns down with a
\* response time and a port probe returns down without one.
C26_ConnectFailure ==
    (ProbeReturned({TypePing, TypePort}) /\ probe.dials = 1
        /\ probe.world.dialErr)
        => /\ probe.result.Status = StatusDown
           /\ probe.monitoring.Type = TypePing
                 => probe.result.ResponseTime # Nil
           /\ probe.monitoring.Type = TypePort
                 => probe.result.ResponseTime = Nil

C26_Witness ==
    /\ ProbeReturned({TypePing})
    /\ probe.dials = 1
    /\ probe.world.dialErr
    /\ probe.result.Status = StatusDown
    /\ probe.result.ResponseTime # Nil

\* the job takes one of the two short cuts of crawlResponseMonitoring
ShortCut ==
    /\ ~probe.monitoring.MaintenanceActive
    /\ \/ probe.monitoring.Type = TypeOther
       \/ probe.monitoring.Type = TypePort /\ probe.monitoring.Port <= 0

\* C27: a job of unrecognized type yields unknown and a port job with
\* port <= 0 yields down, both with no response time and with no request
\* sent and no connection attempted at any time.
C27_ShortCutsUseNoNetwork ==
    ShortCut
        => /\ probe.requests = 0
           /\ probe.dials = 0
           /\ probe.pc \in {"queued", "returned", "posted"}
           /\ probe.pc \in {"returned", "posted"}
                 => probe.result
                      = [Status |-> IF probe.monitoring.Type = TypePort
                                    THEN StatusDown ELSE StatusUnknown,
                         ResponseTime |-> Nil]

C27_Witness ==
    /\ ShortCut
    /\ probe.monitoring.Type = TypePort
    /\ probe.monitoring.Target = <<"h">>
    /\ probe.pc = "returned"
    /\ probe.result.Status = StatusDown

\* C28: the SSL payload crawlMonitoringSSL returns carries the job's id; if
\* it is not valid its expiry, issuer and issued-at are absent; if it is
\* valid its expiry and issued-at are present.
C28_SSLPayloadWellFormed ==
    (unit.fn = "crawlMonitoringSSL" /\ unit.pc = "returned")
        => /\ unit.payload.MonitoringID = unit.monitoring.ID
           /\ ~unit.payload.IsValid
                 => /\ unit.payload.ExpiresAt = Nil
                    /\ unit.payload.Issuer = Nil
                    /\ unit.payload.IssuedAt = Nil
           /\ unit.payload.IsValid
                 => /\ unit.payload.ExpiresAt # Nil
                    /\ unit.payload.IssuedAt # Nil

C28_Witness ==
    /\ unit.fn = "crawlMonitoringSSL"
    /\ unit.pc = "returned"
    /\ Len(unit.env.PeerCertificates) = 1
    /\ unit.env.now > unit.env.PeerCertificates[1].NotAfter
    /\ ~unit.payload.IsValid
    /\ unit.payload.ExpiresAt = Nil

\* C29: every response payload posted is well formed: its status is up,
\* down or unknown; unknown comes without a response time; up comes with
\* one; a response time is never negative.
C29_ResponsePayloadWellFormed ==
    \A i \in DOMAIN probe.posted :
        LET payload == probe.posted[i]
        IN  /\ payload.Status \in {StatusUp, StatusDown, StatusUnknown}
            /\ payload.Status = StatusUnknown => payload.ResponseTime = Nil
            /\ payload.Status = StatusUp => payload.ResponseTime # Nil
            /\ payload.ResponseTime # Nil => payload.ResponseTime[1] >= 0

C29_Witness ==
    /\ probe.pc = "posted"
    /\ probe.slept = fixedHTTPRetryDelay
    /\ probe.posted[1].Status = StatusUp
    /\ probe.posted[1].ResponseTime = Ptr(25003)

\* C30: SSLAddressAndServerName fails on an empty or whitespace-only target,
\* and for a target written as a URL or as a bare host, with or without a
\* port and a path, it returns the host as server name and as address the
\* host with the port the target carries, or with 443 when it carries none.
C30_AddressAndServerName ==
    (unit.fn = "SSLAddressAndServerName" /\ unit.pc = "returned")
        => /\ TrimSpace(unit.rawTarget) = <<>> => unit.out.err
           /\ \A lead \in Spaces, scheme \in Schemes, host \in Hosts,
                 port \in Ports, path \in Paths, trail \in Spaces :
                 unit.rawTarget
                     = Written(lead, scheme, host, port, path, trail)
                     => /\ ~unit.out.err
                        /\ unit.out.serverName = host
                        /\ unit.out.address
                             = host \o (IF port = <<>>
                                        THEN <<":", "4", "4", "3">>
                                        ELSE port)

C30_Witness ==
    /\ unit.fn = "SSLAddressAndServerName"
    /\ unit.pc = "returned"
    /\ unit.rawTarget
         = <<" ", "s", ":", "/", "/", "h", ":", "9", "/", "p", " ">>
    /\ unit.out.address = <<"h", ":", "9">>


\* C31: once the context is cancelled before RunEveryFiveMinutes is called,
\* or while it waits for a tick that is not due yet, the only step
\* RunEveryFiveMinutes takes is its return, and no task invocation starts.
C31_CancelStopsScheduler ==
    [][unit.cancelledWaiting
          => unit'.pc = "returned" /\ unit'.inFlight = unit.inFlight]_vars

C31_Witness ==
    /\ unit.fn = "RunEveryFiveMinutes"
    /\ unit.pc = "returned"
    /\ unit.cancelledWaiting
    /\ ~unit.first

\* C32: whenever a task invocation has returned, with or without an error,
\* and the context is not cancelled, the task is eventually invoked again
\* (or the context is cancelled).
C32_KeepsTicking ==
    (~unit.first /\ unit.pc # "task" /\ ~ctxDone)
        ~> (unit.pc = "task" \/ ctxDone)

C32_Witness ==
    /\ unit.fn = "RunEveryFiveMinutes"
    /\ unit.pc = "task"
    /\ ~unit.first
    /\ unit.err
    /\ ~ctxDone

\* C33: the first run starts at a 5-minute boundary and every later run
\* starts 5 minutes after the previous run started.
C33_FixedCadence ==
    (unit.fn = "RunEveryFiveMinutes" /\ unit.pc = "task")
        => IF unit.first
           THEN unit.startedPhase = 0
           ELSE unit.startedAfter = FiveMinutes

\* C39: never two task invocations in flight, and the timer is not armed
\* while an invocation is in flight.
C39_RunsNeverOverlap ==
    /\ unit.inFlight <= 1
    /\ unit.inFlight = 1 => ~unit.armed

C39_Witness ==
    /\ unit.fn = "RunEveryFiveMinutes"
    /\ unit.inFlight = 1
    /\ unit.runElapsed > FiveMinutes
    /\ ~unit.armed

\* C40: nextFiveMinuteBoundary(now) is the smallest multiple of 5 minutes
\* strictly later than now: it is after now, at most 5 minutes after it,
\* and now + 5 minutes for a now on a boundary.
C40_NextBoundary ==
    (unit.fn = "nextFiveMinuteBoundary" /\ unit.pc = "returned")
        => /\ unit.boundary % FiveMinutes = 0
           /\ unit.boundary > unit.now
           /\ unit.boundary <= unit.now + FiveMinutes
           /\ \A t \in (unit.now + 1)..(unit.boundary - 1) :
                 t % FiveMinutes # 0
           /\ unit.now % FiveMinutes = 0
                 => unit.boundary = unit.now + FiveMinutes

C40_Witness ==
    /\ unit.fn = "nextFiveMinuteBoundary"
    /\ unit.pc = "returned"
    /\ unit.now = 10
    /\ unit.boundary = 15


\* the answer of Core is one of the failures of a fetch: no response, a
\* status of 400 or above, or a job array that holds an invalid job
FailedFetch(response) ==
    \/ response.failed
    \/ response.StatusCode >= 400
    \/ /\ response.raw.syntax = "array"
       /\ \E i \in DOMAIN response.raw.items :
             Rejected(response.raw.items[i])

\* C34: fetching is all-or-nothing. Once one typed request of a phase fails
\* (transport error, status >= 400, or a job array that holds one invalid
\* job), GetMonitorings returns the error and no job, also none of the jobs
\* fetched before; no request is sent for the remaining types, and the
\* phase probes nothing and posts nothing.
C34_FetchAllOrNothing ==
    \A k \in DOMAIN answers :
        FailedFetch(answers[k]) =>
            /\ k = Len(answers)
            /\ Len(requests) = k
            /\ cpc = "returned"
            /\ cret.err # NoError
            /\ cret.monitorings = <<>>
            /\ monitorings["ssl"] = <<>>
            /\ probes["ssl"] = <<>>
            /\ posts["ssl"] = <<>>
            /\ mpost["ssl"] = Nil
            /\ worker["ssl"] = EmptyBag
            /\ pc["ssl"] \in {"fetching", "returned"}
            /\ pc["ssl"] = "returned" => ret["ssl"] = "error"

\* the second typed request was answered by an array of a valid and an
\* invalid job after the first had fetched a job, and runSSL has returned
C34_Witness ==
    /\ Len(answers) = 2
    /\ Len(answers[1].raw.items) = 1
    /\ ~FailedFetch(answers[1])
    /\ Len(answers[2].raw.items) = 2
    /\ FailedFetch(answers[2])
    /\ pc["ssl"] = "returned"
    /\ ret["ssl"] = "error"

\* the peer met by the validator lets the certificate pass: the target
\* resolves, the dial succeeds, a certificate is presented, the clock is
\* within its validity (bounds included) and it verifies for the name
PeerPasses(env) ==
    /\ ~env.resolveErr
    /\ ~env.dialErr
    /\ Len(env.PeerCertificates) >= 1
    /\ env.PeerCertificates[1].NotBefore <= env.now
    /\ env.now <= env.PeerCertificates[1].NotAfter
    /\ env.hostOk

\* C35: crawlMonitoringSSL reports valid exactly when the target resolves,
\* the TLS dial succeeds, the peer presents at least one certificate, the
\* current time is within [not-before, not-after] of the first certificate
\* (both bounds included) and that certificate verifies for the server
\* name; in every other case it returns the invalid payload, and what it
\* returns is always a payload, never an error.
C35_ValidExactlyWhenPeerPasses ==
    (unit.fn = "crawlMonitoringSSL" /\ unit.pc = "returned")
        => /\ unit.payload.IsValid <=> PeerPasses(unit.env)
           /\ ~PeerPasses(unit.env)
                 => unit.payload = InvalidSSLPayload(unit.monitoring)
           /\ DOMAIN unit.payload = DOMAIN InvalidSSLPayload(unit.monitoring)

\* a certificate met at the very instant of its not-after is valid
C35_Witness ==
    /\ unit.fn = "crawlMonitoringSSL"
    /\ unit.pc = "returned"
    /\ Len(unit.env.PeerCertificates) = 1
    /\ unit.env.now = unit.env.PeerCertificates[1].NotAfter
    /\ unit.env.hostOk
    /\ unit.payload.IsValid

\* entry j of the batch of p has been handed to a worker or posted
Taken(p, j) == probes[p][j] > 0 \/ posts[p][j] # <<>>

\* C37: the dispatcher processes the entries of the batch strictly in
\* fetched order. An entry is handed to a worker or posted only once every
\* entry before it that is not under maintenance has been received by a
\* worker; in the response phase the post call for an entry under
\* maintenance is made and has returned before any later entry is handed
\* to a worker or posted.
C37_DispatchInFetchedOrder ==
    \A p \in Phases :
        /\ mpost[p] # Nil
              => /\ pc[p] = "mpost"
                 /\ mpost[p][1].MonitoringID = monitorings[p][next[p]].ID
        /\ \A j \in DOMAIN monitorings[p] :
              Taken(p, j) =>
                  /\ j < next[p] \/ (j = next[p] /\ pc[p] = "mpost")
                  /\ \A i \in 1..(j - 1) :
                        IF ~monitorings[p][i].MaintenanceActive
                        THEN probes[p][i] > 0
                        ELSE p = "response"
                                => /\ posts[p][i] # <<>>
                                   /\ mpost[p] = Nil \/ next[p] # i

\* the response phase has posted for its first entry, under maintenance, and
\* then handed the second to a worker
C37_Witness ==
    /\ Len(monitorings["response"]) = 2
    /\ monitorings["response"][1].MaintenanceActive
    /\ ~monitorings["response"][2].MaintenanceActive
    /\ posts["response"][1] # <<>>
    /\ probes["response"][2] = 1
    /\ posts["response"][2] = <<>>

\* every worker of p has left its receive loop
WorkersExited(p) ==
    /\ workers[p] = 0
    /\ \A ws \in BagToSet(worker[p]) : ws = Exited

\* C36: runResponse and runSSL are deadlock-free. When every fetch, probe
\* and post call terminates, the phase function returns for every batch and
\* every worker count, and by then every worker has exited.
C36_PhaseTerminates ==
    <>(\A p \in Phases :
          pc[p] = "notStarted" \/ (pc[p] = "returned" /\ WorkersExited(p)))

\* a phase with more workers than jobs has returned, all its workers gone
C36_Witness ==
    \E p \in Phases :
        /\ pc[p] = "returned"
        /\ Len(monitorings[p]) = 1
        /\ jobsClosed[p]
        /\ WorkersExited(p)
        /\ CopiesIn(Exited, worker[p]) = 2

\* keyword is a substring of body
Occurs(keyword, body) ==
    \E i \in 0..(Len(body) - Len(keyword)) :
        SubSeq(body, i + 1, i + Len(keyword)) = keyword

\* the keyword probe has returned after performHTTPRequest gave back a
\* response: a status code and the body read
KeywordProbeGotResponse ==
    /\ ProbeReturned({TypeKeyword})
    /\ probe.log # <<>>
    /\ probe.log[Len(probe.log)].outcome = "response"

\* C38: a keyword probe decides on the body alone. Whenever the HTTP
\* request yields a response, the probe is up iff the body contains the
\* keyword of the job, whatever the status code, and an empty keyword makes
\* every response obtained up.
C38_KeywordDecidesOnBody ==
    KeywordProbeGotResponse
        => LET answer == ScriptAt(probe.world, probe.attempt)
           IN  /\ probe.result.Status = StatusUp
                     <=> Occurs(probe.monitoring.Keyword, answer.body)
               /\ probe.result.Status \in {StatusUp, StatusDown}
               /\ probe.monitoring.Keyword = <<>>
                     => probe.result.Status = StatusUp

\* a response of status 500 whose body holds the keyword is up
C38_Witness ==
    /\ KeywordProbeGotResponse
    /\ probe.monitoring.Keyword = <<"k">>
    /\ ScriptAt(probe.world, probe.attempt).statusCode = 500
    /\ ScriptAt(probe.world, probe.attempt).body = <<"o", "k">>
    /\ probe.result.Status = StatusUp
====
